---- MODULE Spec2Model ----
(***************************************************************************)
(* Verification model of the rope-puzzle level editor's generation core:   *)
(*   - the difficulty scorer      (modules/difficulty/difficultyScore.ts)  *)
(*   - the hard-guard checker     (modules/auto-fill/hardGuards.ts)        *)
(*   - the AutoTune search loop   (modules/auto-fill/autoTune.ts)          *)
(*                                                                         *)
(* Conventions.                                                            *)
(*   Cell indices are the program's 0-based integers.  Sequences are       *)
(*   1-based in TLA+, so rope ids and positions inside a rope are the      *)
(*   program's value plus one; every place that does arithmetic on a       *)
(*   position (the edge weight len(B) - pos) converts back.                *)
(*   Real numbers are held in fixed point: a ratio r is the integer        *)
(*   floor(r * Scale).  DifficultyScore is held in the same unit, so a     *)
(*   score s of the program is the integer floor(s * Scale).               *)
(*   An optional value is the empty set (null / undefined) or {v}.         *)
(*   Number.POSITIVE_INFINITY is the value INF, larger than any sum of     *)
(*   edge weights the bounded levels can produce.                          *)
(***************************************************************************)
EXTENDS Integers, Sequences, FiniteSets, TLC

VARIABLES
    \* ---- difficulty scorer driver ----
    level,            \* the LevelData handed to computeDifficulty
    diag,             \* Some(the DifficultyDiagnostics it returned), Null before the call
    \* ---- autoTuneGenerate ----
    pc,               \* "idle" | "loop" | "done"
    config,           \* the config argument
    cfg,              \* let cfg
    attempt,          \* the for-loop counter
    lastRopes,        \* let lastRopes
    lastDiag,         \* let lastDiag (Null = null)
    lastGuardErrors,  \* let lastGuardErrors
    result,           \* the returned TuneResult (Null while running)
    \* ---- observation of the generateOnce callback (not program state) ----
    calls,            \* number of generateOnce calls made so far
    passedCfg,        \* the config passed to the latest generateOnce call
    gen,              \* the ropes the latest generateOnce call returned
    lastNonEmpty,     \* the latest non-empty list generateOnce returned
    adjusted,         \* TRUE once adjustConfig has been applied at least once
    \* ---- the generators and the editor (one record per running function) ----
    fill,             \* autoFillRopes: its arguments, its locals, its return value
    irr,              \* autoFillIrregular: its arguments, its locals, its return value
    pathEd,           \* a path edited with appendPathPoint / undoPathPoint
    app               \* the App component's useState cells

diffVars == <<level, diag>>
tuneVars == <<pc, config, cfg, attempt, lastRopes, lastDiag, lastGuardErrors, result,
              calls, passedCfg, gen, lastNonEmpty, adjusted>>
extVars == <<fill, irr, pathEd, app>>
vars == <<level, diag, pc, config, cfg, attempt, lastRopes, lastDiag, lastGuardErrors,
          result, calls, passedCfg, gen, lastNonEmpty, adjusted, fill, irr, pathEd, app>>

\* An optional value: Null is null/undefined, Some(v) a present value v.
Null == {}
Some(v) == {v}
The(o) == CHOOSE v \in o : TRUE
\* a ?? b
Default(o, d) == IF o = Null THEN d ELSE The(o)

(***************************************************************************)
(* Bounds of the model.                                                    *)
(***************************************************************************)
GridMax == 2          \* MapX, MapY range over 0..GridMax in the scorer driver
MaxRopes == 2         \* a scored level holds at most MaxRopes pieces
MaxTune == 3          \* explicit maxTuneAttempts values range over 0..MaxTune

(***************************************************************************)
(* Fixed-point arithmetic.                                                 *)
(***************************************************************************)
\* one unit of a fixed-point value is 1/Scale
Scale == 100 * 100
\* const INF = Number.POSITIVE_INFINITY
INF == 1000000

Max2(a, b) == IF a >= b THEN a ELSE b
Min2(a, b) == IF a <= b THEN a ELSE b

\* A mutation of clamp01 that forgets to clamp.
clamp01_noclamp(x) == x

\* clamp01(x) = Math.max(0, Math.min(1, x)), on fixed-point values.
clamp01(x) == Max2(0, Min2(Scale, x))

\* floor(Scale * ln(1+x)/ln(26)) for x = 0..25
LogTable25 ==
    <<0, 2127, 3371, 4254, 4939, 5499, 5972, 6382, 6743, 7067, 7359, 7626, 7872,
      8099, 8311, 8509, 8695, 8871, 9037, 9194, 9344, 9487, 9623, 9754, 9879, 10000>>

\* logNorm(x, 25) for an integer x: clamp01(ln(1 + max(0,x)) / ln(26)).
\* Beyond 25 the quotient exceeds 1; the table is read at 25 and one unit is
\* added so that only clamp01 brings the value back to 1.
logNorm25(x) ==
    LET m == Max2(0, x)
    IN  clamp01(IF m <= 25 THEN LogTable25[m + 1] ELSE Scale + 1)

(***************************************************************************)
(* nextCell(rope, MapX): OUT is -1.  Called only for ropes with            *)
(* Index.length >= 2.                                                      *)
(***************************************************************************)
\* A mutation of nextCell that forgets the left/right border test.
nextCell_nowrap(rope, MapX) ==
    LET head == rope.Index[1]
    IN  CASE rope.D = 1 -> head + MapX
          [] rope.D = 2 -> head - MapX
          [] rope.D = 3 -> head + 1
          [] rope.D = 4 -> head - 1
          [] OTHER -> -1

nextCell(rope, MapX) ==
    LET head == rope.Index[1]
    IN  CASE rope.D = 1 -> head + MapX
          [] rope.D = 2 -> head - MapX
          [] rope.D = 3 -> IF MapX = 0 THEN -1
                           ELSE IF head % MapX = MapX - 1 THEN -1
                           ELSE head + 1
          [] rope.D = 4 -> IF MapX = 0 THEN -1
                           ELSE IF head % MapX = 0 THEN -1
                           ELSE head - 1
          [] OTHER -> -1

(***************************************************************************)
(* Binary min-heap of <<dist, ropeId>> pairs; heap position i of the       *)
(* program is element i+1 of the sequence.                                 *)
(***************************************************************************)
Swap(h, i, j) == [h EXCEPT ![i + 1] = h[j + 1], ![j + 1] = h[i + 1]]

RECURSIVE SiftUp(_, _)
SiftUp(h, i) ==
    IF i <= 0 THEN h
    ELSE LET p == (i - 1) \div 2
         IN  IF h[p + 1][1] <= h[i + 1][1] THEN h
             ELSE SiftUp(Swap(h, p, i), p)

heapPush(heap, dist, ropeId) ==
    LET h == Append(heap, <<dist, ropeId>>)
    IN  SiftUp(h, Len(h) - 1)

RECURSIVE SiftDown(_, _)
SiftDown(h, i) ==
    LET n == Len(h)
        l == 2 * i + 1
        r == 2 * i + 2
        s1 == IF l < n /\ h[l + 1][1] < h[i + 1][1] THEN l ELSE i
        s2 == IF r < n /\ h[r + 1][1] < h[s1 + 1][1] THEN r ELSE s1
    IN  IF s2 = i THEN h ELSE SiftDown(Swap(h, i, s2), s2)

\* heapPop(heap) on a non-empty heap: the pair <<top, heap after the pop>>.
heapPop(heap) ==
    LET top == heap[1]
        last == heap[Len(heap)]
        rest == SubSeq(heap, 1, Len(heap) - 1)
    IN  IF Len(rest) = 0 THEN <<top, rest>>
        ELSE <<top, SiftDown([rest EXCEPT ![1] = last], 0)>>

(***************************************************************************)
(* computeDifficulty(levelData).  A value that the function computes once  *)
(* and reads several times is passed to a helper operator as an argument.  *)
(***************************************************************************)
RECURSIVE SumSeq(_)
SumSeq(s) == IF s = <<>> THEN 0 ELSE Head(s) + SumSeq(Tail(s))

RECURSIVE MaxSeq(_)
MaxSeq(s) == IF s = <<>> THEN 0 ELSE Max2(Head(s), MaxSeq(Tail(s)))

SeqRange(s) == {s[k] : k \in 1..Len(s)}

\* occSet: every cell of every rope's Index
occSet(lv) == UNION {SeqRange(lv.Rope[i].Index) : i \in 1..Len(lv.Rope)}

\* the guard of lines 145 and 176: ropes that are skipped
Skipped(rope) == Len(rope.Index) < 2 \/ rope.D < 1 \/ rope.D > 4

\* t >= 0 && t < BoardSize
inBounds(t, lv) == t >= 0 /\ t < lv.MapX * lv.MapY

\* the ropes whose next cell is outside the board (oobCount counts them)
OOBRopes(lv) ==
    {i \in 1..Len(lv.Rope) :
        ~Skipped(lv.Rope[i]) /\ ~inBounds(nextCell(lv.Rope[i], lv.MapX), lv)}

\* the ropes whose next cell is inside the board and in no rope (freeAheadCount)
FreeAheadRopes(lv, occ) ==
    {i \in 1..Len(lv.Rope) :
        /\ ~Skipped(lv.Rope[i])
        /\ inBounds(nextCell(lv.Rope[i], lv.MapX), lv)
        /\ nextCell(lv.Rope[i], lv.MapX) \notin occ}

\* the set `movable` (lines 143-159)
movable(lv) == OOBRopes(lv) \cup FreeAheadRopes(lv, occSet(lv))

\* the last position of cell c in Index idx, 0-based
lastPos(idx, c) ==
    (CHOOSE k \in 1..Len(idx) : idx[k] = c /\ \A m \in 1..Len(idx) : idx[m] = c => m <= k) - 1

\* the owner of c among the ropes `owners` that hold it: the last one written
ownerAmong(lv, c, owners) ==
    IF owners = {} THEN Null
    ELSE Some([ropeId |-> CHOOSE i \in owners : \A j \in owners : j <= i,
               pos |-> lastPos(lv.Rope[CHOOSE i \in owners : \A j \in owners : j <= i].Index, c)])

\* cellOwner.get(c): the map is filled rope by rope, position by position, so
\* a later write replaces an earlier one.  Null when no rope holds c.
cellOwner(lv, c) ==
    ownerAmong(lv, c, {i \in 1..Len(lv.Rope) : c \in SeqRange(lv.Rope[i].Index)})

\* lines 174-180: the owner of rope A's next cell when A contributes an edge,
\* Null when A is movable, skipped, or its next cell is outside or free
blockerOf(lv, mov, A) ==
    IF A \in mov \/ Skipped(lv.Rope[A]) THEN Null
    ELSE IF ~inBounds(nextCell(lv.Rope[A], lv.MapX), lv) THEN Null
    ELSE cellOwner(lv, nextCell(lv.Rope[A], lv.MapX))

\* A mutation of edgeTo that weighs an edge by the cells in front of the
\* blocking cell instead of those from it to the tail.
edgeTo_fromHead(lv, A, owner) == [to |-> A, w |-> owner.pos + 1]

\* the edge owner -> A as the program pushes it
edgeTo(lv, A, owner) == [to |-> A, w |-> Len(lv.Rope[owner.ropeId].Index) - owner.pos]

\* reverseEdges[B]: the edges B -> A in the order they were pushed (A ascending);
\* blockers[A] is blockerOf(lv, mov, A)
RECURSIVE EdgesOf(_, _, _, _)
EdgesOf(lv, blockers, B, A) ==
    IF A > Len(lv.Rope) THEN <<>>
    ELSE (IF blockers[A] # Null /\ The(blockers[A]).ropeId = B
          THEN <<edgeTo(lv, A, The(blockers[A]))>> ELSE <<>>)
         \o EdgesOf(lv, blockers, B, A + 1)

reverseEdgesFrom(lv, blockers) == [B \in 1..Len(lv.Rope) |-> EdgesOf(lv, blockers, B, 1)]

reverseEdges(lv, mov) ==
    reverseEdgesFrom(lv, [A \in 1..Len(lv.Rope) |-> blockerOf(lv, mov, A)])

\* lines 199-203 for one edge: <<dist, heap>> after the relaxation
relaxEdge(dist, heap, cur, e) ==
    IF dist[cur] + e.w < dist[e.to]
    THEN <<[dist EXCEPT ![e.to] = dist[cur] + e.w], heapPush(heap, dist[cur] + e.w, e.to)>>
    ELSE <<dist, heap>>

\* the for-loop of lines 198-204 over edges k..Len(edges) of cur; dh = <<dist, heap>>
RECURSIVE Relax(_, _, _, _)
Relax(dh, edges, k, cur) ==
    IF k > Len(edges) THEN dh
    ELSE Relax(relaxEdge(dh[1], dh[2], cur, edges[k]), edges, k + 1, cur)

\* the while(true) loop of lines 193-205; dh = <<dist, heap>>
RECURSIVE Dijkstra(_, _)
RECURSIVE DijkstraPopped(_, _, _)
Dijkstra(dh, rev) ==
    IF dh[2] = <<>> THEN dh[1] ELSE DijkstraPopped(dh[1], heapPop(dh[2]), rev)

\* popped = <<[d, cur], heap after the pop>>
DijkstraPopped(dist, popped, rev) ==
    IF popped[1][1] > dist[popped[1][2]]
    THEN Dijkstra(<<dist, popped[2]>>, rev)
    ELSE Dijkstra(Relax(<<dist, popped[2]>>, rev[popped[1][2]], 1, popped[1][2]), rev)

\* movable.forEach: heapPush(heap, 0, r), in insertion order
RECURSIVE SeedHeap(_, _, _)
SeedHeap(n, mov, i) ==
    IF i < 1 THEN <<>>
    ELSE IF i \in mov THEN heapPush(SeedHeap(n, mov, i - 1), 0, i)
    ELSE SeedHeap(n, mov, i - 1)

\* the array `dist` after the shortest-path pass
distFrom(lv, mov) ==
    Dijkstra(<<[i \in 1..Len(lv.Rope) |-> IF i \in mov THEN 0 ELSE INF],
               SeedHeap(Len(lv.Rope), mov, Len(lv.Rope))>>,
             reverseEdges(lv, mov))

distOf(lv) == distFrom(lv, movable(lv))

\* the first rope of S in the order of a stable sort by descending length
longestIn(lv, S) ==
    CHOOSE i \in S : \A j \in S :
        \/ Len(lv.Rope[j].Index) < Len(lv.Rope[i].Index)
        \/ (Len(lv.Rope[j].Index) = Len(lv.Rope[i].Index) /\ i <= j)

\* Rope.map(...).sort((a,b) => b.len - a.len).slice(0,2)
KeySetOf(lv) ==
    IF Len(lv.Rope) = 0 THEN <<>>
    ELSE IF Len(lv.Rope) = 1 THEN <<1>>
    ELSE <<longestIn(lv, 1..Len(lv.Rope)),
           longestIn(lv, (1..Len(lv.Rope)) \ {longestIn(lv, 1..Len(lv.Rope))})>>

SetMin(S) == CHOOSE d \in S : \A e \in S : d <= e

\* A mutation of breakAndLockOf that reports the lock depth as the first break.
breakAndLockOf_sameStep(reach) ==
    IF reach = {} THEN <<25, 25>> ELSE <<SetMin(reach), SetMin(reach)>>

\* lines 218-232 given the finite distances of the KeySet members
breakAndLockOf(reach) ==
    IF reach = {} THEN <<25, 25>> ELSE <<SetMin(reach) + 1, SetMin(reach)>>

\* lines 212-233: <<FirstBreakSteps, KeyLockDepth>>
breakAndLockFrom(KeySet, dist) ==
    IF Len(KeySet) = 0 THEN <<0, 0>>
    ELSE breakAndLockOf({dist[KeySet[k]] : k \in {j \in 1..Len(KeySet) : dist[KeySet[j]] # INF}})

BreakAndLock(lv) == breakAndLockFrom(KeySetOf(lv), distOf(lv))

emptyDiag(lv) ==
    [DifficultyScore |-> 0, BreakDifficulty |-> 0, CognitiveDifficulty |-> 0,
     FirstBreakSteps |-> 0, KeyLockDepth |-> 0, InitialMovableCount |-> 0,
     Density |-> 0, EmptyRatio |-> IF lv.MapX * lv.MapY = 0 THEN 0 ELSE Scale,
     N |-> 0, AvgLen |-> 0, MaxLen |-> 0, AvgBends |-> 0,
     FreeAheadRatio |-> Null, OOBRatio |-> Null, KeySet |-> Null]

\* lines 246-248
BreakDifficultyOf(nFirst, nLock, invMov, branch, nOOB) ==
    clamp01((40 * nFirst + 25 * nLock + 20 * invMov + 15 * branch - 5 * nOOB) \div 100)

\* lines 249-256
CognitiveDifficultyOf(nDen, nN, nAvg, nBend, nMax, EmptyRatio) ==
    clamp01((35 * nDen + 20 * nN + 15 * nAvg + 10 * nBend + 10 * nMax
             + 10 * (Scale - EmptyRatio)) \div 100)

\* line 257
DifficultyScoreOf(BreakDifficulty, CognitiveDifficulty) ==
    100 * clamp01(Max2(BreakDifficulty, CognitiveDifficulty))

\* lines 235-275 from the raw ratios
diagFrom(N, Density, EmptyRatio, AvgLen, MaxLen, AvgBends, InitialMovableCount, FreeAheadRatio, OOBRatio, FirstBreakSteps, KeyLockDepth, KeySet, BreakDifficulty, CognitiveDifficulty) ==
    [DifficultyScore |-> DifficultyScoreOf(BreakDifficulty, CognitiveDifficulty),
     BreakDifficulty |-> BreakDifficulty,
     CognitiveDifficulty |-> CognitiveDifficulty,
     FirstBreakSteps |-> FirstBreakSteps, KeyLockDepth |-> KeyLockDepth,
     InitialMovableCount |-> InitialMovableCount,
     Density |-> Density, EmptyRatio |-> EmptyRatio,
     N |-> N, AvgLen |-> AvgLen, MaxLen |-> MaxLen, AvgBends |-> AvgBends,
     FreeAheadRatio |-> Some(FreeAheadRatio), OOBRatio |-> Some(OOBRatio),
     KeySet |-> Some(KeySet)]

\* lines 235-257: the normalised signals and the two channels
diagOfRatios(N, Density, EmptyRatio, AvgLen, MaxLen, AvgBends, InitialMovableCount, FreeAheadRatio, OOBRatio, FirstBreakSteps, KeyLockDepth, KeySet) ==
    diagFrom(N, Density, EmptyRatio, AvgLen, MaxLen, AvgBends, InitialMovableCount,
             FreeAheadRatio, OOBRatio, FirstBreakSteps, KeyLockDepth, KeySet,
             BreakDifficultyOf(logNorm25(FirstBreakSteps), logNorm25(KeyLockDepth),
                               clamp01((Scale \div Max2(1, InitialMovableCount)) * 4),
                               (clamp01((EmptyRatio * 100) \div 45)
                                  * clamp01((FreeAheadRatio * 100) \div 45)) \div Scale,
                               clamp01((OOBRatio * 10) \div 6)),
             CognitiveDifficultyOf(clamp01((Density * 100) \div 95),
                                   clamp01((N * Scale) \div 60),
                                   clamp01(AvgLen \div 15),
                                   clamp01(AvgBends \div 15),
                                   clamp01((MaxLen * Scale) \div 80),
                                   EmptyRatio))

\* lines 120-161 and 207-233: the counts, then the ratios
diagOfCounts(N, BoardSize, OccCount, sumLen, MaxLen, sumBends, nMovable, nFreeAhead, nOOB, bl, KeySet) ==
    diagOfRatios(N, (OccCount * Scale) \div BoardSize,
                 Scale - ((OccCount * Scale) \div BoardSize),
                 (sumLen * Scale) \div N, MaxLen, (sumBends * Scale) \div N,
                 nMovable, (nFreeAhead * Scale) \div N, (nOOB * Scale) \div N,
                 bl[1], bl[2], KeySet)

computeDifficulty(lv) ==
    IF lv.MapX * lv.MapY = 0 \/ Len(lv.Rope) = 0 THEN emptyDiag(lv)
    ELSE diagOfCounts(Len(lv.Rope), lv.MapX * lv.MapY, Cardinality(occSet(lv)),
                      SumSeq([i \in 1..Len(lv.Rope) |-> Len(lv.Rope[i].Index)]),
                      MaxSeq([i \in 1..Len(lv.Rope) |-> Len(lv.Rope[i].Index)]),
                      SumSeq([i \in 1..Len(lv.Rope) |-> lv.Rope[i].BendCount]),
                      Cardinality(movable(lv)),
                      Cardinality(FreeAheadRopes(lv, occSet(lv))),
                      Cardinality(OOBRopes(lv)),
                      BreakAndLock(lv), KeySetOf(lv))

(***************************************************************************)
(* checkHardGuards(levelData): the list of violated rules, in order.       *)
(***************************************************************************)
FIRST_BREAK_THRESHOLD == 10
KEY_LOCK_THRESHOLD == 10
\* FREE_AHEAD_THRESHOLD = 0.35, in fixed point
FREE_AHEAD_THRESHOLD == (35 * Scale) \div 100

\* A mutation of guardsOf without the rules on FirstBreakSteps and KeyLockDepth.
guardsOf_noBreakRules(d) ==
    (IF d.InitialMovableCount < 1 THEN <<"G1">> ELSE <<>>)
    \o (IF d.N <= 30
        THEN (IF d.InitialMovableCount < 2 THEN <<"G4">> ELSE <<>>)
        ELSE (IF d.InitialMovableCount < 1 THEN <<"G4">> ELSE <<>>))
    \o (IF d.FreeAheadRatio # Null /\ The(d.FreeAheadRatio) > FREE_AHEAD_THRESHOLD
        THEN <<"G5">> ELSE <<>>)

\* lines 24-55 on the diagnostics d
guardsOf(d) ==
    (IF d.InitialMovableCount < 1 THEN <<"G1">> ELSE <<>>)
    \o (IF d.FirstBreakSteps > FIRST_BREAK_THRESHOLD THEN <<"G2">> ELSE <<>>)
    \o (IF d.KeyLockDepth > KEY_LOCK_THRESHOLD THEN <<"G3">> ELSE <<>>)
    \o (IF d.N <= 30
        THEN (IF d.InitialMovableCount < 2 THEN <<"G4">> ELSE <<>>)
        ELSE (IF d.InitialMovableCount < 1 THEN <<"G4">> ELSE <<>>))
    \* undefined > 0.35 is false
    \o (IF d.FreeAheadRatio # Null /\ The(d.FreeAheadRatio) > FREE_AHEAD_THRESHOLD
        THEN <<"G5">> ELSE <<>>)

checkHardGuards(lv) ==
    IF Len(lv.Rope) = 0 THEN <<>> ELSE guardsOf(computeDifficulty(lv))

(***************************************************************************)
(* adjustConfig(cfg, dir, _reason).  A config is the record of the fields  *)
(* AutoTune reads or writes: kMin, kMax, minLen, maxLen (numbers, required *)
(* by the AutoFillConfig interface), and the optional minRopes, maxRopes,  *)
(* targetScoreMin, targetScoreMax, maxTuneAttempts, hardGuardsEnabled.     *)
(***************************************************************************)
\* lines 92-97 and 101-106: the new <<minRopes, maxRopes>>
adjustRopes(c, dir) ==
    IF dir = "easier"
    THEN IF c.maxRopes # Null /\ The(c.maxRopes) > 0
         THEN LET mx == Max2(1, The(c.maxRopes) - 1)
              IN  <<IF c.minRopes # Null /\ mx < The(c.minRopes) THEN Some(mx) ELSE c.minRopes,
                    Some(mx)>>
         ELSE <<c.minRopes, c.maxRopes>>
    ELSE IF c.maxRopes # Null
         THEN LET mx == The(c.maxRopes) + 1
              IN  <<IF c.minRopes # Null /\ mx < The(c.minRopes) THEN Some(mx) ELSE c.minRopes,
                    Some(mx)>>
         ELSE <<c.minRopes, c.maxRopes>>

\* A mutation of adjustConfig: the two closing clamps of kMin and minLen
\* (lines 109-110) are missing.
adjustConfig_noclamp(c, dir) ==
    LET kMax == IF dir = "easier" THEN Max2(c.kMin, c.kMax - 1) ELSE Min2(c.kMax + 1, 15)
        maxLen == IF dir = "easier" THEN Max2(c.minLen, c.maxLen - 2) ELSE Min2(c.maxLen + 2, 80)
        ropes == adjustRopes(c, dir)
    IN  [c EXCEPT !.kMax = kMax, !.maxLen = maxLen,
                  !.minRopes = ropes[1], !.maxRopes = ropes[2]]

\* A mutation of adjustConfig: 'easier' floors maxRopes at minRopes and
\* leaves minRopes alone.
adjustConfig_floorMinRopes(c, dir) ==
    LET kMax == IF dir = "easier" THEN Max2(c.kMin, c.kMax - 1) ELSE Min2(c.kMax + 1, 15)
        maxLen == IF dir = "easier" THEN Max2(c.minLen, c.maxLen - 2) ELSE Min2(c.maxLen + 2, 80)
        ropes == adjustRopes(c, dir)
        maxRopes == IF dir = "easier" /\ c.maxRopes # Null /\ The(c.maxRopes) > 0
                    THEN Some(Max2(Default(c.minRopes, 1), The(c.maxRopes) - 1))
                    ELSE ropes[2]
    IN  [c EXCEPT !.kMax = kMax, !.maxLen = maxLen,
                  !.minRopes = IF dir = "easier" THEN c.minRopes ELSE ropes[1],
                  !.maxRopes = maxRopes,
                  !.kMin = IF kMax < c.kMin THEN kMax ELSE c.kMin,
                  !.minLen = IF maxLen < c.minLen THEN maxLen ELSE c.minLen]

adjustConfig(c, dir) ==
    LET minK == c.kMin
        maxK == c.kMax
        minLen == c.minLen
        maxLen == c.maxLen
        kMax2 == IF dir = "easier" THEN Max2(minK, maxK - 1) ELSE Min2(maxK + 1, 15)
        maxLen2 == IF dir = "easier" THEN Max2(minLen, maxLen - 2) ELSE Min2(maxLen + 2, 80)
        ropes == adjustRopes(c, dir)
    IN  [c EXCEPT !.kMax = kMax2, !.maxLen = maxLen2,
                  !.minRopes = ropes[1], !.maxRopes = ropes[2],
                  !.kMin = IF kMax2 < c.kMin THEN kMax2 ELSE c.kMin,
                  !.minLen = IF maxLen2 < c.minLen THEN maxLen2 ELSE c.minLen]

(***************************************************************************)
(* autoTuneGenerate(levelBase, config, generateOnce)                       *)
(***************************************************************************)
\* lines 119-122, the targets in fixed point
targetMinOf(c) == Default(c.targetScoreMin, 25) * Scale
targetMaxOf(c) == Default(c.targetScoreMax, 60) * Scale
maxAttemptsOf(c) == Default(c.maxTuneAttempts, 25)

\* A mutation of hardGuardsOn: the guards are off unless asked for.
hardGuardsOn_defaultOff(c) == Default(c.hardGuardsEnabled, FALSE)

hardGuardsOn(c) == Default(c.hardGuardsEnabled, TRUE)

\* A mutation of the loop condition: one iteration too many.
loopCond_offByOne(a, maxAttempts) == a <= maxAttempts + 1

\* line 129: attempt <= maxAttempts
loopCond(a, maxAttempts) == a <= maxAttempts

\* A mutation of the score test: the upper bound is not tested.
inRange_noUpper(score, targetMin, targetMax) == score >= targetMin

\* line 152: score >= targetMin && score <= targetMax
inRange(score, targetMin, targetMax) == score >= targetMin /\ score <= targetMax

\* A mutation of keepLastRopes: the first pieces generated are kept.
keepLastRopes_first(last, ropes) == IF Len(last) = 0 THEN ropes ELSE last

\* A mutation of keepLastRopes: lastRopes is assigned before the empty test.
keepLastRopes_always(last, ropes) == ropes

\* lines 133-139: lastRopes after an attempt that generated `ropes`
keepLastRopes(last, ropes) == IF Len(ropes) = 0 THEN last ELSE ropes

\* { ...levelBase, Rope: ropes }
withRopes(levelBase, ropes) == [levelBase EXCEPT !.Rope = ropes]

\* A mutation of failureResult: attempts carries the loop counter's exit value.
failureResult_counter(levelBase, c, curCfg, ropes, ldiag, lerrs) ==
    [ropes |-> ropes, finalConfig |-> curCfg,
     score |-> IF ldiag = Null THEN 0 ELSE The(ldiag).DifficultyScore,
     diagnostics |-> IF ldiag = Null THEN computeDifficulty(withRopes(levelBase, ropes))
                     ELSE The(ldiag),
     attempts |-> maxAttemptsOf(c) + 1,
     reason |-> Some("AutoTune exceeded max attempts"),
     guardErrors |-> IF Len(lerrs) > 0 THEN Some(lerrs) ELSE Null]

\* lines 169-177: the result returned after the loop
failureResult(levelBase, c, curCfg, ropes, ldiag, lerrs) ==
    [ropes |-> ropes, finalConfig |-> curCfg,
     score |-> IF ldiag = Null THEN 0 ELSE The(ldiag).DifficultyScore,
     diagnostics |-> IF ldiag = Null THEN computeDifficulty(withRopes(levelBase, ropes))
                     ELSE The(ldiag),
     attempts |-> maxAttemptsOf(c),
     reason |-> Some("AutoTune exceeded max attempts"),
     guardErrors |-> IF Len(lerrs) > 0 THEN Some(lerrs) ELSE Null]

\* lines 153-159: the result returned from inside the loop
successResult(ropes, curCfg, d, a) ==
    [ropes |-> ropes, finalConfig |-> curCfg, score |-> d.DifficultyScore,
     diagnostics |-> d, attempts |-> a, reason |-> Null, guardErrors |-> Null]

(***************************************************************************)
(* Inputs.                                                                 *)
(***************************************************************************)
\* a RopeData; H is Index[0] (0 for an empty Index)
Rp(D, Index, BendCount) ==
    [D |-> D, H |-> IF Len(Index) = 0 THEN 0 ELSE Index[1], Index |-> Index,
     BendCount |-> BendCount]

\* The pieces the scorer driver builds levels from: pieces as the generator
\* derives them, pieces whose D points at another cell, pieces that are too
\* short, have an invalid D, repeat a cell or lie outside a small grid.
RopeChoices ==
    { Rp(4, <<0, 1>>, 0), Rp(3, <<1, 0>>, 0), Rp(4, <<2, 3>>, 0), Rp(3, <<3, 2>>, 0),
      Rp(2, <<0, 2>>, 0), Rp(1, <<2, 0>>, 0),
      Rp(1, <<0, 1>>, 0), Rp(1, <<1, 0>>, 0), Rp(2, <<2, 3>>, 0), Rp(4, <<3, 1>>, 0),
      Rp(4, <<0, 1, 3>>, 1),
      Rp(1, <<0>>, 0), Rp(0, <<>>, 0), Rp(0, <<0, 1>>, 0), Rp(5, <<0, 1>>, 0),
      Rp(3, <<4, 5, 6>>, 40), Rp(3, <<1, 1>>, 0) }

\* The grid autoTuneGenerate is run on (levelBase): 3 columns, 2 rows.
LevelBase == [MapX |-> 3, MapY |-> 2, Rope |-> <<>>]

\* What generateOnce may return on LevelBase.
GenOutputs ==
    { <<>>,
      \* two pieces leaving the grid sideways, 4 of 6 cells covered
      << Rp(4, <<0, 1>>, 0), Rp(3, <<5, 4>>, 0) >>,
      \* the same with every cell covered
      << Rp(4, <<0, 1, 2>>, 0), Rp(3, <<5, 4, 3>>, 0) >>,
      \* a single movable piece
      << Rp(4, <<0, 1>>, 0) >>,
      \* two pieces blocking each other
      << Rp(1, <<0, 1>>, 0), Rp(2, <<3, 4>>, 0) >>,
      \* two movable pieces and one blocked by the second
      << Rp(1, <<3, 0>>, 0), Rp(3, <<5, 4>>, 0), Rp(1, <<1, 2>>, 0) >> }

\* <<kMin, kMax, minLen, maxLen>> of the starting configs: a small one, one
\* with both pairs inverted, one above the caps of 'harder', one at the caps.
ShapeChoices == { <<0, 1, 2, 3>>, <<2, 1, 3, 2>>, <<16, 16, 81, 81>>, <<0, 15, 2, 79>> }

\* <<minRopes, maxRopes>> of the starting configs
RopeCountChoices == { <<Null, Null>>, <<Some(2), Some(2)>>, <<Some(1), Some(3)>>,
                      <<Null, Some(0)>> }

\* <<targetScoreMin, targetScoreMax>> of the starting configs
TargetChoices == { <<Null, Null>>, <<Some(40), Some(60)>>, <<Some(10), Some(40)>> }

Configs ==
    { [kMin |-> sh[1], kMax |-> sh[2], minLen |-> sh[3], maxLen |-> sh[4],
       minRopes |-> rc[1], maxRopes |-> rc[2],
       targetScoreMin |-> tg[1], targetScoreMax |-> tg[2],
       maxTuneAttempts |-> ma, hardGuardsEnabled |-> hg] :
         sh \in ShapeChoices, rc \in RopeCountChoices, tg \in TargetChoices,
         ma \in {Some(n) : n \in 0..MaxTune}, hg \in {Null, Some(TRUE), Some(FALSE)} }
    \cup
    \* maxTuneAttempts unset: the default budget of 25 attempts
    { [kMin |-> 0, kMax |-> 1, minLen |-> 2, maxLen |-> 3,
       minRopes |-> Null, maxRopes |-> Some(2),
       targetScoreMin |-> tg[1], targetScoreMax |-> tg[2],
       maxTuneAttempts |-> Null, hardGuardsEnabled |-> Null] : tg \in TargetChoices }

(***************************************************************************)
(* The scorer driver: build a level piece by piece, score it.              *)
(***************************************************************************)
\* no generator call and no editor session is under way
ExtIdle ==
    /\ fill = [pc |-> "idle"]
    /\ irr = [pc |-> "idle"]
    /\ pathEd = [pc |-> "idle"]
    /\ app = [pc |-> "idle"]

TuneIdle ==
    /\ pc = "idle" /\ config = Null /\ cfg = Null /\ attempt = 0
    /\ lastRopes = <<>> /\ lastDiag = Null /\ lastGuardErrors = <<>> /\ result = Null
    /\ calls = 0 /\ passedCfg = Null /\ gen = Null /\ lastNonEmpty = <<>>
    /\ adjusted = FALSE

InitDiff ==
    /\ level \in {[MapX |-> x, MapY |-> y, Rope |-> <<>>] : x \in 0..GridMax, y \in 0..GridMax}
    /\ diag = Null
    /\ TuneIdle
    /\ ExtIdle

\* the editor or the generator adds a piece to the level
AddRope(r) ==
    /\ pc = "idle"
    /\ Len(level.Rope) < MaxRopes
    /\ level' = [level EXCEPT !.Rope = Append(@, r)]
    /\ diag' = Null
    /\ UNCHANGED tuneVars
    /\ UNCHANGED extVars

\* computeDifficulty(level)
Score ==
    /\ pc = "idle"
    /\ diag = Null
    /\ diag' = Some(computeDifficulty(level))
    /\ UNCHANGED <<level>>
    /\ UNCHANGED tuneVars
    /\ UNCHANGED extVars

NextDiff == (\E r \in RopeChoices : AddRope(r)) \/ Score

SpecDiff == InitDiff /\ [][NextDiff]_vars

(***************************************************************************)
(* autoTuneGenerate as a state machine: one step per loop iteration.       *)
(***************************************************************************)
InitTune ==
    /\ level = LevelBase
    /\ diag = Null
    /\ pc = "loop"
    /\ config \in Configs
    /\ cfg = config
    /\ attempt = 1
    /\ lastRopes = <<>>
    /\ lastDiag = Null
    /\ lastGuardErrors = <<>>
    /\ result = Null
    /\ calls = 0 /\ passedCfg = Null /\ gen = Null /\ lastNonEmpty = <<>>
    /\ adjusted = FALSE
    /\ ExtIdle

\* A mutation of AttemptBody: the score is tested against the target range
\* before the guards are looked at.
AttemptBody_rangeFirst(ropes, d, guardErrors) ==
    IF Len(ropes) = 0
    THEN /\ cfg' = adjustConfig(cfg, "easier")
         /\ attempt' = attempt + 1
         /\ adjusted' = TRUE
         /\ UNCHANGED <<lastDiag, lastGuardErrors, result, pc>>
    ELSE /\ lastDiag' = Some(d)
         /\ lastGuardErrors' = IF hardGuardsOn(config) THEN guardErrors ELSE lastGuardErrors
         /\ IF inRange(d.DifficultyScore, targetMinOf(config), targetMaxOf(config))
            THEN /\ result' = Some(successResult(ropes, cfg, d, attempt))
                 /\ pc' = "done"
                 /\ UNCHANGED <<cfg, attempt, adjusted>>
            ELSE /\ cfg' = adjustConfig(cfg, IF d.DifficultyScore > targetMaxOf(config)
                                             THEN "easier" ELSE "harder")
                 /\ attempt' = attempt + 1
                 /\ adjusted' = TRUE
                 /\ UNCHANGED <<result, pc>>

\* Lines 133-166 of one iteration, given what generateOnce returned (ropes),
\* the diagnostics d of the level and its guard violations guardErrors.
AttemptBody(ropes, d, guardErrors) ==
    IF Len(ropes) = 0
    THEN /\ cfg' = adjustConfig(cfg, "easier")
         /\ attempt' = attempt + 1
         /\ adjusted' = TRUE
         /\ UNCHANGED <<lastDiag, lastGuardErrors, result, pc>>
    ELSE /\ lastDiag' = Some(d)
         /\ lastGuardErrors' = IF hardGuardsOn(config) THEN guardErrors ELSE lastGuardErrors
         /\ IF hardGuardsOn(config) /\ Len(guardErrors) > 0
            THEN /\ cfg' = adjustConfig(cfg, "easier")
                 /\ attempt' = attempt + 1
                 /\ adjusted' = TRUE
                 /\ UNCHANGED <<result, pc>>
            ELSE IF inRange(d.DifficultyScore, targetMinOf(config), targetMaxOf(config))
            THEN /\ result' = Some(successResult(ropes, cfg, d, attempt))
                 /\ pc' = "done"
                 /\ UNCHANGED <<cfg, attempt, adjusted>>
            ELSE /\ cfg' = adjustConfig(cfg, IF d.DifficultyScore > targetMaxOf(config)
                                             THEN "easier" ELSE "harder")
                 /\ attempt' = attempt + 1
                 /\ adjusted' = TRUE
                 /\ UNCHANGED <<result, pc>>

\* One iteration of the for-loop (lines 129-167); generateOnce returns `ropes`.
Attempt(ropes) ==
    /\ pc = "loop"
    /\ loopCond(attempt, maxAttemptsOf(config))
    /\ calls' = calls + 1
    /\ passedCfg' = Some(cfg)
    /\ gen' = Some(ropes)
    /\ lastNonEmpty' = IF ropes # <<>> THEN ropes ELSE lastNonEmpty
    /\ lastRopes' = keepLastRopes(lastRopes, ropes)
    /\ UNCHANGED <<level, diag, config>>
    /\ UNCHANGED extVars
    /\ AttemptBody(ropes, computeDifficulty(withRopes(level, ropes)),
                   checkHardGuards(withRopes(level, ropes)))

\* The loop condition fails: lines 169-177.
Exhaust ==
    /\ pc = "loop"
    /\ ~loopCond(attempt, maxAttemptsOf(config))
    /\ result' = Some(failureResult(level, config, cfg, lastRopes, lastDiag, lastGuardErrors))
    /\ pc' = "done"
    /\ UNCHANGED <<level, diag, config, cfg, attempt, lastRopes, lastDiag, lastGuardErrors,
                   calls, passedCfg, gen, lastNonEmpty, adjusted>>
    /\ UNCHANGED extVars

NextTune == (\E ropes \in GenOutputs : Attempt(ropes)) \/ Exhaust

SpecTune == InitTune /\ [][NextTune]_vars

Init == InitDiff \/ InitTune
Next == NextDiff \/ NextTune
Spec == Init /\ [][Next]_vars

(***************************************************************************)
(* Properties of autoTuneGenerate (checked under SpecTune).                *)
(***************************************************************************)
\* The attempt budget, the target range and the guard switch as the
\* documentation states them.
Budget == IF config.maxTuneAttempts = Null THEN 25 ELSE The(config.maxTuneAttempts)
TargetLow == (IF config.targetScoreMin = Null THEN 25 ELSE The(config.targetScoreMin)) * Scale
TargetHigh == (IF config.targetScoreMax = Null THEN 60 ELSE The(config.targetScoreMax)) * Scale
GuardsEnabled == config.hardGuardsEnabled = Null \/ config.hardGuardsEnabled = Some(TRUE)

Returned == pc = "done" /\ result # Null
Succeeded == Returned /\ The(result).reason = Null
Failed == Returned /\ The(result).reason # Null

\* C1: generateOnce is called at most maxTuneAttempts times (25 when unset):
\* the number of calls never exceeds the budget, inside the loop the counter is
\* one more than the number of calls made (so every iteration uses up one unit
\* of the budget), and the attempts field of a result never exceeds the budget.
C1_AttemptsBounded ==
    /\ calls <= Budget
    /\ pc = "loop" => attempt = calls + 1
    /\ Returned => The(result).attempts <= Budget

\* the default budget of 25 was used up and the function returned
C1_Witness == Returned /\ config.maxTuneAttempts = Null /\ calls = 25

\* C2: a result without a reason carries a score inside
\* [targetScoreMin, targetScoreMax] (25 and 60 when unset).
C2_SuccessInRange ==
    Succeeded => (TargetLow <= The(result).score /\ The(result).score <= TargetHigh)

\* a success after at least one failed attempt, with the default target range
C2_Witness ==
    /\ Succeeded /\ calls >= 2
    /\ config.targetScoreMin = Null /\ config.targetScoreMax = Null

\* C3: when the function ends without a success it returns a result whose
\* reason is a non-empty string and whose attempts field is maxTuneAttempts;
\* every run that ends, ends with a result.
C3_FailureShape ==
    /\ pc = "done" => result # Null
    /\ Failed => /\ The(The(result).reason) # ""
                 /\ The(result).attempts = Budget

\* a failure after a full budget of at least two calls
C3_Witness == Failed /\ calls >= 2 /\ calls = Budget

\* C4: with hardGuardsEnabled true or unset, the level of a successful result
\* (levelBase with the returned ropes) has no guard violation.
C4_SuccessPassesGuards ==
    (Succeeded /\ GuardsEnabled) => checkHardGuards(withRopes(level, The(result).ropes)) = <<>>

\* a success with the guards on by default, after at least one adjustment
C4_Witness ==
    /\ Succeeded /\ config.hardGuardsEnabled = Null /\ calls >= 2
    /\ The(result).finalConfig # config

\* C5 as stated: the ropes of a failure result are the pieces returned by the
\* final call of generateOnce.
C5_LastCallRopes == (Failed /\ gen # Null) => The(result).ropes = The(gen)

\* C5 amended: the ropes of a failure result are the pieces returned by the
\* last call of generateOnce that returned at least one piece (the empty list
\* when no call did).
C5_LastNonEmptyRopes == Failed => The(result).ropes = lastNonEmpty

\* a failure whose final call returned nothing after an earlier call returned pieces
C5_Witness == Failed /\ gen = Some(<<>>) /\ lastNonEmpty # <<>>

\* C6: every config passed to generateOnce after at least one adjustment (the
\* second call and later) has kMax >= kMin and maxLen >= minLen, and so has the
\* current config once it was adjusted.
WellFormed(c) == c.kMax >= c.kMin /\ c.maxLen >= c.minLen

C6_AdjustedWellFormed ==
    /\ calls >= 2 => WellFormed(The(passedCfg))
    /\ adjusted => WellFormed(cfg)

\* a config that started above the caps of 'harder' and was passed on clamped
C6_Witness ==
    /\ calls >= 2 /\ config.kMin = 16 /\ config.minLen = 81
    /\ The(passedCfg).kMax = 15 /\ The(passedCfg).maxLen = 80

\* The direction the documentation prescribes after an attempt that returned
\* `ropes` (given its diagnostics d and guard violations errs): "none" when the
\* attempt succeeds.
PrescribedDir(ropes, d, errs) ==
    IF ropes = <<>> THEN "easier"
    ELSE IF GuardsEnabled /\ errs # <<>> THEN "easier"
    ELSE IF d.DifficultyScore > TargetHigh THEN "easier"
    ELSE IF d.DifficultyScore < TargetLow THEN "harder"
    ELSE "none"

\* the direction prescribed for the attempt a step has just made
DirOfStep ==
    IF pc = "loop" /\ calls' = calls + 1 /\ gen' # Null
    THEN PrescribedDir(The(gen'), computeDifficulty(withRopes(level, The(gen'))),
                       checkHardGuards(withRopes(level, The(gen'))))
    ELSE "none"

\* C7 as stated: an 'easier' adjustment never takes maxRopes below the minRopes
\* of the config it is applied to, and leaves minRopes unchanged.
C7_FloorIsMinRopes ==
    [][DirOfStep = "easier" =>
         /\ cfg'.minRopes = cfg.minRopes
         /\ (cfg.maxRopes # Null /\ cfg.minRopes # Null /\ The(cfg.maxRopes) >= The(cfg.minRopes))
              => The(cfg'.maxRopes) >= The(cfg.minRopes)]_vars

\* C7 amended: an 'easier' adjustment of a config with maxRopes > 0 sets
\* maxRopes to max(1, maxRopes - 1), floor-bounded by 1 and not by minRopes; a
\* minRopes above the new maxRopes is lowered to it, any other minRopes is
\* kept; a config with maxRopes unset or not positive keeps both fields.
C7_FloorIsOne ==
    [][DirOfStep = "easier" =>
         IF cfg.maxRopes # Null /\ The(cfg.maxRopes) > 0
         THEN /\ cfg'.maxRopes = Some(IF The(cfg.maxRopes) - 1 >= 1 THEN The(cfg.maxRopes) - 1 ELSE 1)
              /\ cfg'.minRopes =
                   IF cfg.minRopes # Null /\ The(cfg.minRopes) > The(cfg'.maxRopes)
                   THEN cfg'.maxRopes ELSE cfg.minRopes
         ELSE cfg'.maxRopes = cfg.maxRopes /\ cfg'.minRopes = cfg.minRopes]_vars

\* an 'easier' adjustment has taken maxRopes from 2 to 1 and minRopes with it
C7_Witness ==
    /\ config.minRopes = Some(2) /\ config.maxRopes = Some(2)
    /\ calls = 1 /\ gen = Some(<<>>)
    /\ cfg.maxRopes = Some(1) /\ cfg.minRopes = Some(1)

\* C8: after an attempt with at least one piece and no guard violation, a score
\* above targetScoreMax makes the next attempt run with kMax, maxLen and
\* maxRopes shrunk (none of them larger than before), a score below
\* targetScoreMin with kMax, maxLen and maxRopes grown (none of them smaller
\* than before).  Stated for configs with kMin <= kMax and minLen <= maxLen,
\* and for attempts that are not the last of the budget.
ScoredStep ==
    /\ pc = "loop" /\ calls' = calls + 1 /\ gen' # Null /\ The(gen') # <<>>
    /\ calls' < Budget
    /\ GuardsEnabled => checkHardGuards(withRopes(level, The(gen'))) = <<>>
    /\ WellFormed(cfg)

NotLarger(a, b) == (a = Null /\ b = Null) \/ (a # Null /\ b # Null /\ The(a) <= The(b))

C8_DirectionFollowsScore ==
    [][ScoredStep =>
         /\ computeDifficulty(withRopes(level, The(gen'))).DifficultyScore > TargetHigh
              => /\ pc' = "loop"
                 /\ cfg'.kMax <= cfg.kMax /\ cfg'.maxLen <= cfg.maxLen
                 /\ NotLarger(cfg'.maxRopes, cfg.maxRopes)
         /\ computeDifficulty(withRopes(level, The(gen'))).DifficultyScore < TargetLow
              => /\ pc' = "loop"
                 /\ cfg'.kMax >= cfg.kMax /\ cfg'.maxLen >= cfg.maxLen
                 /\ NotLarger(cfg.maxRopes, cfg'.maxRopes)]_vars

(***************************************************************************)
(* Properties of computeDifficulty (checked under SpecDiff).               *)
(***************************************************************************)
Scored == pc = "idle" /\ diag # Null

\* C9: for every level, DifficultyScore lies in [0, 100], and it is exactly 0
\* for a level without pieces.
C9_ScoreBounded ==
    Scored => /\ 0 <= The(diag).DifficultyScore
              /\ The(diag).DifficultyScore <= 100 * Scale
              /\ Len(level.Rope) = 0 => The(diag).DifficultyScore = 0

\* a scored level of a one-cell grid whose pieces hold more than one cell
C9_Witness ==
    /\ Scored /\ level.MapX * level.MapY = 1
    /\ Cardinality(occSet(level)) > 1
    /\ The(diag).DifficultyScore > 0

\* The movability rule in grid coordinates: the cell one step from the head
\* (x, y) = (head mod MapX, head div MapX) in direction D (1 up, 2 down,
\* 3 right, 4 left) is outside the grid, or is a cell of no piece.
StepX(D) == IF D = 3 THEN 1 ELSE IF D = 4 THEN -1 ELSE 0
StepY(D) == IF D = 1 THEN 1 ELSE IF D = 2 THEN -1 ELSE 0

AheadOutside(lv, r) ==
    LET nx == (r.Index[1] % lv.MapX) + StepX(r.D)
        ny == (r.Index[1] \div lv.MapX) + StepY(r.D)
    IN  nx < 0 \/ nx >= lv.MapX \/ ny < 0 \/ ny >= lv.MapY

AheadCell(lv, r) ==
    ((r.Index[1] \div lv.MapX) + StepY(r.D)) * lv.MapX + (r.Index[1] % lv.MapX) + StepX(r.D)

AheadFree(lv, r) ==
    AheadOutside(lv, r)
    \/ \A j \in 1..Len(lv.Rope) : \A k \in 1..Len(lv.Rope[j].Index) :
          lv.Rope[j].Index[k] # AheadCell(lv, r)

Classified(r) == Len(r.Index) >= 2 /\ r.D \in 1..4

\* the level with one more piece, a single cell c
Occupy(lv, c) == [lv EXCEPT !.Rope = Append(@, Rp(0, <<c>>, 0))]

indexToXY(index, MapX) == [x |-> index % MapX, y |-> index \div MapX]
xyToIndex(x, y, MapX) == y * MapX + x

\* enum Direction
Direction == [Up |-> 1, Down |-> 2, Right |-> 3, Left |-> 4, Invalid |-> 0]

\* A mutation of calculateDirection that goes by the index difference
\* (+1 / -1 / +MapX / -MapX) instead of the coordinates.
calculateDirection_byDelta(fromIndex, toIndex, MapX) ==
    LET delta == toIndex - fromIndex
    IN  IF delta = MapX THEN Direction.Up
        ELSE IF delta = -MapX THEN Direction.Down
        ELSE IF delta = 1 THEN Direction.Right
        ELSE IF delta = -1 THEN Direction.Left
        ELSE Direction.Invalid

calculateDirection(fromIndex, toIndex, MapX) ==
    LET pos1 == indexToXY(fromIndex, MapX)
        pos2 == indexToXY(toIndex, MapX)
        dx == pos2.x - pos1.x
        dy == pos2.y - pos1.y
    IN  IF dx = 0 /\ dy = 1 THEN Direction.Up
        ELSE IF dx = 0 /\ dy = -1 THEN Direction.Down
        ELSE IF dx = 1 /\ dy = 0 THEN Direction.Right
        ELSE IF dx = -1 /\ dy = 0 THEN Direction.Left
        ELSE Direction.Invalid

isAdjacent(fromIndex, toIndex, MapX) ==
    calculateDirection(fromIndex, toIndex, MapX) # Direction.Invalid

\* currentPath.includes(newIndex)
includes(s, v) == \E i \in 1..Len(s) : s[i] = v

\* returns { success, path }
appendPathPoint(currentPath, newIndex, MapX) ==
    IF includes(currentPath, newIndex)
    THEN [success |-> FALSE, path |-> currentPath]
    ELSE IF Len(currentPath) = 0
    THEN [success |-> TRUE, path |-> <<newIndex>>]
    ELSE IF ~isAdjacent(currentPath[Len(currentPath)], newIndex, MapX)
    THEN [success |-> FALSE, path |-> currentPath]
    ELSE [success |-> TRUE, path |-> Append(currentPath, newIndex)]

undoPathPoint(currentPath) ==
    IF Len(currentPath) = 0 THEN <<>> ELSE SubSeq(currentPath, 1, Len(currentPath) - 1)

calculateH(path) == IF Len(path) > 0 THEN path[1] ELSE 0

oppositeDirection(dir) ==
    IF dir = Direction.Up THEN Direction.Down
    ELSE IF dir = Direction.Down THEN Direction.Up
    ELSE IF dir = Direction.Right THEN Direction.Left
    ELSE IF dir = Direction.Left THEN Direction.Right
    ELSE Direction.Invalid

calculateD(path, MapX) ==
    IF Len(path) < 2 THEN Direction.Invalid
    ELSE oppositeDirection(calculateDirection(path[1], path[2], MapX))

\* the for-loop of calculateBendCount from position i (1-based) on
RECURSIVE bendsFrom(_, _, _, _)
bendsFrom(path, MapX, i, lastDirection) ==
    IF i > Len(path) THEN 0
    ELSE LET currentDirection == calculateDirection(path[i - 1], path[i], MapX)
         IN  (IF currentDirection # lastDirection THEN 1 ELSE 0)
             + bendsFrom(path, MapX, i + 1, currentDirection)

calculateBendCount(path, MapX) ==
    IF Len(path) < 3 THEN 0
    ELSE bendsFrom(path, MapX, 3, calculateDirection(path[1], path[2], MapX))

calculateRopeFields(path, MapX, ColorIdx) ==
    [D |-> calculateD(path, MapX), H |-> calculateH(path), Index |-> path,
     BendCount |-> calculateBendCount(path, MapX), ColorIdx |-> ColorIdx]

(***************************************************************************)
(* The random source (autoFillRopes.ts, class SeededRandom, and            *)
(* Math.random).  A 32-bit word is the pair <<hi, lo>> of its 16-bit       *)
(* halves; a draw is the word v standing for the number v / 2^32.          *)
(***************************************************************************)
Half == 65536

RECURSIVE Xor16(_, _)
Xor16(a, b) ==
    IF a = 0 THEN b ELSE IF b = 0 THEN a
    ELSE ((a + b) % 2) + 2 * Xor16(a \div 2, b \div 2)

RECURSIVE Or16(_, _)
Or16(a, b) ==
    IF a = 0 THEN b ELSE IF b = 0 THEN a
    ELSE (IF a % 2 = 1 \/ b % 2 = 1 THEN 1 ELSE 0) + 2 * Or16(a \div 2, b \div 2)

RECURSIVE Pow2(_)
Pow2(n) == IF n = 0 THEN 1 ELSE 2 * Pow2(n - 1)

\* ToUint32 of a small non-negative integer
Word(n) == <<(n \div Half) % Half, n % Half>>
\* (a + b) | 0
WordAdd(a, b) == <<(a[1] + b[1] + (a[2] + b[2]) \div Half) % Half, (a[2] + b[2]) % Half>>
\* a ^ b
WordXor(a, b) == <<Xor16(a[1], b[1]), Xor16(a[2], b[2])>>
\* a | k, for a constant k below 2^16
WordOr(a, k) == <<a[1], Or16(a[2], k)>>
\* a >>> n, for 0 < n < 16
WordShr(a, n) ==
    <<a[1] \div Pow2(n), (a[2] \div Pow2(n)) + (a[1] % Pow2(n)) * Pow2(16 - n)>>
\* the 32-bit product of two 16-bit numbers, as a word
Mul16(a, b) ==
    LET x == (a % 256) * b
        y == (a \div 256) * b
        s == x + (y % 256) * 256
    IN  <<y \div 256 + s \div Half, s % Half>>
\* Math.imul(a, b)
imul(a, b) ==
    LET low == Mul16(a[2], b[2])
    IN  <<(low[1] + Mul16(a[1], b[2])[2] + Mul16(a[2], b[1])[2]) % Half, low[2]>>

\* new SeededRandom(seed): the state after construction
SeededRandom(seed) == Word(seed)

\* SeededRandom.next(): the value returned and the state left behind
next(state) ==
    LET s1 == WordAdd(state, <<27947, 31221>>)            \* 0x6d2b79f5
        t1 == imul(WordXor(s1, WordShr(s1, 15)), WordOr(s1, 1))
        t2 == WordXor(t1, WordAdd(t1, imul(WordXor(t1, WordShr(t1, 7)), WordOr(t1, 61))))
    IN  [value |-> WordXor(t2, WordShr(t2, 14)), state |-> s1]

\* Math.floor(r * n) for the draw r and a small count n
floorTimes(r, n) == (r[1] * n + (r[2] * n) \div Half) \div Half
\* r < 0.3: 0.3 * 2^32 = 1288490188.8 = 0x4CCCCCCC.cc
EARLY_STOP_HI == 19660
EARLY_STOP_LO == 52428
earlyStop(r) == r[1] < EARLY_STOP_HI \/ (r[1] = EARLY_STOP_HI /\ r[2] <= EARLY_STOP_LO)

\* Math.random() yields any number of [0, 1): the model draws from the
\* RandomSteps values j / RandomSteps, each rounded up to a multiple of 2^-16.
RandomSteps == 6
MathRandom ==
    { <<(j * Half + RandomSteps - 1) \div RandomSteps, 0>> : j \in 0..(RandomSteps - 1) }

\* One call of the closure `random`: rng is Null for Math.random, Some(state)
\* for a SeededRandom.  The set of possible (value, random source afterwards).
Draws(rng) ==
    IF rng = Null
    THEN { [value |-> v, rng |-> Null] : v \in MathRandom }
    ELSE { [value |-> next(The(rng)).value, rng |-> Some(next(The(rng)).state)] }

(***************************************************************************)
(* autoFillRopes (modules/auto-fill/autoFillRopes.ts).                     *)
(* A JavaScript Set is held as the sequence of its members in insertion    *)
(* order, which is the order Array.from and for-of visit them in.          *)
(***************************************************************************)
\* new Set(array): the members in first-insertion order
RECURSIVE setOf(_)
setOf(array) ==
    IF array = <<>> THEN <<>>
    ELSE LET front == setOf(SubSeq(array, 1, Len(array) - 1))
             last == array[Len(array)]
         IN  IF includes(front, last) THEN front ELSE Append(front, last)

\* A mutation of deleteAll that leaves the set as it is.
deleteAll_keep(set, path) == set

\* path.forEach((index) => set.delete(index))
deleteAll(set, path) == SelectSeq(set, LAMBDA c : ~includes(path, c))

\* A mutation of getAdjacentIndices whose right and left neighbours are
\* index + 1 and index - 1, whatever the column.
getAdjacentIndices_wrap(index, MapX, MapY) ==
    LET p == indexToXY(index, MapX)
    IN  (IF p.y + 1 < MapY THEN <<xyToIndex(p.x, p.y + 1, MapX)>> ELSE <<>>)
        \o (IF p.y - 1 >= 0 THEN <<xyToIndex(p.x, p.y - 1, MapX)>> ELSE <<>>)
        \o (IF index + 1 < MapX * MapY THEN <<index + 1>> ELSE <<>>)
        \o (IF index - 1 >= 0 THEN <<index - 1>> ELSE <<>>)

getAdjacentIndices(index, MapX, MapY) ==
    LET p == indexToXY(index, MapX)
    IN  (IF p.y + 1 < MapY THEN <<xyToIndex(p.x, p.y + 1, MapX)>> ELSE <<>>)
        \o (IF p.y - 1 >= 0 THEN <<xyToIndex(p.x, p.y - 1, MapX)>> ELSE <<>>)
        \o (IF p.x + 1 < MapX THEN <<xyToIndex(p.x + 1, p.y, MapX)>> ELSE <<>>)
        \o (IF p.x - 1 >= 0 THEN <<xyToIndex(p.x - 1, p.y, MapX)>> ELSE <<>>)

\* xs.filter(x => x === v).length
countOf(s, v) == Cardinality({i \in 1..Len(s) : s[i] = v})

\* the test of has2x2Loop on the four cells path[i..i+3] (1-based i)
squareAt(path, MapX, i) ==
    LET xs == [k \in 1..4 |-> indexToXY(path[i + k - 1], MapX).x]
        ys == [k \in 1..4 |-> indexToXY(path[i + k - 1], MapX).y]
        minX == Min2(Min2(xs[1], xs[2]), Min2(xs[3], xs[4]))
        maxX == Max2(Max2(xs[1], xs[2]), Max2(xs[3], xs[4]))
        minY == Min2(Min2(ys[1], ys[2]), Min2(ys[3], ys[4]))
        maxY == Max2(Max2(ys[1], ys[2]), Max2(ys[3], ys[4]))
    IN  /\ maxX - minX = 1 /\ maxY - minY = 1
        /\ countOf(xs, minX) = 2 /\ countOf(xs, maxX) = 2
        /\ countOf(ys, minY) = 2 /\ countOf(ys, maxY) = 2

has2x2Loop(path, MapX) ==
    /\ Len(path) >= 4
    /\ \E i \in 1..(Len(path) - 3) : squareAt(path, MapX, i)

\* the MapY validateRope hands to getAdjacentIndices
HEAD_CHECK_MAPY == 1000

\* validateRope, the U-turn part
hasUturn(path, MapX) ==
    \E i \in 2..(Len(path) - 1) :
        calculateDirection(path[i], path[i + 1], MapX)
            = oppositeDirection(calculateDirection(path[i - 1], path[i], MapX))

\* A mutation of headAdjacentIncludes that finds no cell next to the head.
headAdjacentIncludes_never(path, MapX, MapY, cell) == FALSE

\* headAdjacent.includes(cell), headAdjacent = getAdjacentIndices(path[0], MapX, MapY)
headAdjacentIncludes(path, MapX, MapY, cell) ==
    includes(getAdjacentIndices(path[1], MapX, MapY), cell)

\* some cell after Index[1] is a neighbour of Index[0]
headTouched(path, MapX, MapY) ==
    \E i \in 3..Len(path) : headAdjacentIncludes(path, MapX, MapY, path[i])

validateRope(path, MapX, c) ==
    /\ Len(path) >= 2
    /\ c.forbidUturn => ~hasUturn(path, MapX)
    /\ c.forbidHeadTurn =>
          /\ calculateDirection(path[1], path[2], MapX) # Direction.Invalid
          /\ calculateD(path, MapX)
                = oppositeDirection(calculateDirection(path[1], path[2], MapX))
          /\ ~headTouched(path, MapX, HEAD_CHECK_MAPY)
    /\ c.forbid2x2Loop => ~has2x2Loop(path, MapX)

\* postValidate: the pieces whose next cell is off the index range or free
movableCount(ropes, MapX, MapY) ==
    LET occupiedAll == UNION {SeqRange(ropes[i].Index) : i \in 1..Len(ropes)}
        step(D) == IF D = 1 THEN MapX ELSE IF D = 2 THEN -MapX ELSE IF D = 3 THEN 1 ELSE -1
        moves(r) == /\ Len(r.Index) >= 2 /\ r.D >= 1 /\ r.D <= 4
                    /\ LET nextIndex == r.Index[1] + step(r.D)
                       IN  \/ nextIndex < 0
                           \/ nextIndex > MapX * MapY - 1
                           \/ nextIndex \notin occupiedAll
    IN  Cardinality({i \in 1..Len(ropes) : moves(ropes[i])})

\* the threshold used when highBendThreshold is absent
NO_HIGH_BEND == 999

\* postValidate(config, ropes, MapX, MapY).ok; the two ratio bounds are held
\* in units of 1/Scale
postValidate(c, ropes, MapX, MapY) ==
    \/ Len(ropes) = 0
    \/ LET n == Len(ropes)
           highBendCount == Cardinality({i \in 1..n :
                                ropes[i].BendCount >= Default(c.highBendThreshold, NO_HIGH_BEND)})
           sumBend == SumSeq([i \in 1..n |-> ropes[i].BendCount])
           mainRopeLen == MaxSeq([i \in 1..n |-> Len(ropes[i].Index)])
       IN  /\ c.minMovableRopes # Null => movableCount(ropes, MapX, MapY) >= The(c.minMovableRopes)
           /\ c.maxHighBendRatio # Null => highBendCount * Scale <= The(c.maxHighBendRatio) * n
           /\ c.maxAvgBend # Null => sumBend * Scale <= The(c.maxAvgBend) * n
           /\ c.minMainRopeLen # Null => mainRopeLen >= The(c.minMainRopeLen)

\* generateSingleRope, lines 271-306: the filter over `adjacent` from its
\* i-th member on.  The callback assigns headDir, so the filter returns the
\* candidates together with the headDir it leaves behind.
RECURSIVE filterCandidates(_, _, _, _, _, _, _, _)
filterCandidates(adjacent, i, path, availableIndices, headDir, prevDir, MapX, MapY) ==
    IF i > Len(adjacent) THEN [candidates |-> <<>>, headDir |-> headDir]
    ELSE
      LET nextIndex == adjacent[i]
          currentIndex == path[Len(path)]
          dir == calculateDirection(currentIndex, nextIndex, MapX)
          open == ~includes(path, nextIndex) /\ includes(availableIndices, nextIndex)
          first == open /\ Len(path) = 1 /\ headDir = Null
          keep == IF ~open THEN FALSE
                  ELSE IF first THEN dir # Direction.Invalid
                  ELSE /\ ~(/\ Len(path) >= 2 /\ headDir # Null
                            /\ headAdjacentIncludes(path, MapX, MapY, nextIndex)
                            /\ nextIndex # path[2])
                       /\ ~(/\ prevDir # Null
                            /\ dir = oppositeDirection(The(prevDir)))
          rest == filterCandidates(adjacent, i + 1, path, availableIndices,
                                   IF first /\ keep THEN Some(dir) ELSE headDir,
                                   prevDir, MapX, MapY)
      IN  [candidates |-> IF keep THEN <<nextIndex>> \o rest.candidates ELSE rest.candidates,
           headDir |-> rest.headDir]

POST_VALIDATE_MAX_ATTEMPTS == 40
\* const maxAttemptsPerRope = 50
maxAttemptsPerRope == 50
\* the piece count of a full-map fill is one per FULL_MAP_CELLS_PER_ROPE cells
FULL_MAP_CELLS_PER_ROPE == 20
NON_FULL_MAP_MAX_ROPES == 100

\* Math.ceil(a / b) for positive b
ceilDiv(a, b) == (a + b - 1) \div b

\* generateRopesOnce, line 355
inferredMaxRopes(MapX, MapY, fillableIndices, c) ==
    IF c.maxRopes # Null THEN The(c.maxRopes)
    ELSE IF Len(fillableIndices) = MapX * MapY
    THEN ceilDiv(MapX * MapY, FULL_MAP_CELLS_PER_ROPE)
    ELSE NON_FULL_MAP_MAX_ROPES

\* autoFillRopes, lines 424-427
fillableOf(MapX, MapY, maskIndices) ==
    IF Len(maskIndices) > 0 THEN maskIndices ELSE [i \in 1..(MapX * MapY) |-> i - 1]

hasPostConstraints(c) ==
    \/ c.minMovableRopes # Null \/ c.maxHighBendRatio # Null
    \/ c.maxAvgBend # Null \/ c.minMainRopeLen # Null

\* A mutation of attemptRandom that draws every attempt from Math.random.
attemptRandom_unseeded(c, n) == Null

\* the random source of one generateRopesOnce call (lines 413-417, 443-449);
\* n is the attempt number, 0 outside the post-validation loop
attemptRandom(c, n) ==
    IF c.seed = Null THEN Null ELSE Some(SeededRandom(The(c.seed) + n))

\* A mutation of tooShort that accepts every length.
tooShort_never(path, c) == FALSE

\* generateSingleRope, line 328
tooShort(path, c) == Len(path) < c.minLen

\* generateRopesOnce, lines 367-373
ropeOf(path, MapX) ==
    [D |-> calculateD(path, MapX), H |-> calculateH(path), Index |-> path,
     BendCount |-> calculateBendCount(path, MapX), ColorIdx |-> -1]

\* generateRopesOnce, lines 374-388: the piece passes the head-turn test
headTurnOk(path, rope, MapX, MapY, c) ==
    (c.forbidHeadTurn /\ Len(path) >= 2) =>
        /\ calculateDirection(path[1], path[2], MapX) # Direction.Invalid
        /\ rope.D = oppositeDirection(calculateDirection(path[1], path[2], MapX))
        /\ ~headTouched(path, MapX, MapY)

(***************************************************************************)
(* autoFillRopes as a state machine.  fill.pc is the position:             *)
(*   "call"   autoFillRopes has been called                                *)
(*   "once"   generateRopesOnce, at the test of its while loop             *)
(*   "grow"   generateSingleRope, at the test of its while loop            *)
(*   "finish" generateSingleRope, after its while loop                     *)
(*   "ret"    generateRopesOnce has left its while loop                    *)
(*   "done"   autoFillRopes has returned fill.out                          *)
(***************************************************************************)
\* the call autoFillRopes({MapX, MapY, maskIndices, config}); c is finalConfig.
\* callNo and first belong to the caller: the number of this call and what
\* the call before it returned.
fillCall(MapX, MapY, maskIndices, c, callNo, first) ==
    [pc |-> "call", MapX |-> MapX, MapY |-> MapY, maskIndices |-> maskIndices,
     config |-> c, callNo |-> callNo, first |-> first,
     rng |-> Null, attempt |-> 0, availableIndices |-> <<>>, ropes |-> <<>>,
     totalAttempts |-> 0, path |-> <<>>, prevDir |-> Null, headDir |-> Null,
     attempts |-> 0, lastRopes |-> <<>>, out |-> Null, diag |-> Null]

\* entry of generateRopesOnce for attempt n (0 outside the post-validation loop)
onceStart(f, n) ==
    [f EXCEPT !.pc = "once", !.attempt = n, !.rng = attemptRandom(f.config, n),
              !.availableIndices = setOf(fillableOf(f.MapX, f.MapY, f.maskIndices)),
              !.ropes = <<>>, !.totalAttempts = 0, !.path = <<>>,
              !.prevDir = Null, !.headDir = Null, !.attempts = 0]

\* autoFillRopes, lines 406-450: up to the first call of generateRopesOnce
FillBegin ==
    /\ fill.pc = "call"
    /\ fill' = IF fill.MapX = 0 \/ fill.MapY = 0
               THEN [fill EXCEPT !.pc = "done", !.out = Some(<<>>)]
               ELSE onceStart(fill, IF hasPostConstraints(fill.config) THEN 1 ELSE 0)
    /\ UNCHANGED <<irr, pathEd, app>>
    /\ UNCHANGED <<diffVars, tuneVars>>

\* generateRopesOnce, lines 360-362, and generateSingleRope, lines 250-262
OnceLoop ==
    /\ fill.pc = "once"
    /\ LET maxRopes == inferredMaxRopes(fill.MapX, fill.MapY,
                           fillableOf(fill.MapX, fill.MapY, fill.maskIndices), fill.config)
       IN  IF /\ Len(fill.availableIndices) > 0
              /\ Len(fill.ropes) < maxRopes
              /\ fill.totalAttempts < maxAttemptsPerRope * maxRopes
           THEN \E d \in Draws(fill.rng) :
                  fill' = [fill EXCEPT
                     !.pc = "grow", !.totalAttempts = @ + 1, !.rng = d.rng,
                     !.path = <<fill.availableIndices[
                                   floorTimes(d.value, Len(fill.availableIndices)) + 1]>>,
                     !.prevDir = Null, !.headDir = Null, !.attempts = 0]
           ELSE fill' = [fill EXCEPT !.pc = "ret"]
    /\ UNCHANGED <<irr, pathEd, app>>
    /\ UNCHANGED <<diffVars, tuneVars>>

\* generateSingleRope, lines 264-325: one iteration of the while loop, given
\* the result f of the candidate filter
GrowBody(f) ==
    IF Len(f.candidates) = 0
    THEN fill' = [fill EXCEPT !.pc = "finish", !.attempts = @ + 1, !.headDir = f.headDir]
    ELSE \E d \in Draws(fill.rng) :
           LET nextIndex == f.candidates[floorTimes(d.value, Len(f.candidates)) + 1]
               grown == [fill EXCEPT
                           !.attempts = @ + 1, !.headDir = f.headDir,
                           !.path = Append(@, nextIndex),
                           !.prevDir = Some(calculateDirection(fill.path[Len(fill.path)],
                                                               nextIndex, fill.MapX))]
           IN  IF Len(grown.path) >= fill.config.minLen
               THEN \E e \in Draws(d.rng) :
                      fill' = [grown EXCEPT !.rng = e.rng,
                                 !.pc = IF earlyStop(e.value) THEN "finish" ELSE "grow"]
               ELSE fill' = [grown EXCEPT !.rng = d.rng]

GrowStep ==
    /\ fill.pc = "grow"
    /\ IF Len(fill.path) < fill.config.maxLen /\ fill.attempts < fill.config.maxLen * 10
       THEN GrowBody(filterCandidates(
                getAdjacentIndices(fill.path[Len(fill.path)], fill.MapX, fill.MapY), 1,
                fill.path, fill.availableIndices, fill.headDir, fill.prevDir,
                fill.MapX, fill.MapY))
       ELSE fill' = [fill EXCEPT !.pc = "finish"]
    /\ UNCHANGED <<irr, pathEd, app>>
    /\ UNCHANGED <<diffVars, tuneVars>>

\* generateSingleRope, lines 327-337, and generateRopesOnce, lines 363-391
FinishRope ==
    /\ fill.pc = "finish"
    /\ IF tooShort(fill.path, fill.config) \/ ~validateRope(fill.path, fill.MapX, fill.config)
       THEN fill' = [fill EXCEPT !.pc = IF fill.totalAttempts > maxAttemptsPerRope * 10
                                        THEN "ret" ELSE "once"]
       ELSE IF ~headTurnOk(fill.path, ropeOf(fill.path, fill.MapX),
                           fill.MapX, fill.MapY, fill.config)
       THEN fill' = [fill EXCEPT !.pc = "once"]
       ELSE fill' = [fill EXCEPT
                !.ropes = Append(@, ropeOf(fill.path, fill.MapX)),
                !.availableIndices = deleteAll(@, fill.path),
                !.pc = IF /\ fill.config.targetCoverage = "A"
                          /\ Len(deleteAll(fill.availableIndices, fill.path)) = 0
                       THEN "ret" ELSE "once"]
    /\ UNCHANGED <<irr, pathEd, app>>
    /\ UNCHANGED <<diffVars, tuneVars>>

\* autoFillRopes, lines 441-461: generateRopesOnce has returned fill.ropes
OnceReturn ==
    /\ fill.pc = "ret"
    /\ fill' = IF \/ fill.attempt = 0
                  \/ postValidate(fill.config, fill.ropes, fill.MapX, fill.MapY)
                  \/ fill.attempt >= POST_VALIDATE_MAX_ATTEMPTS
               THEN [fill EXCEPT !.pc = "done", !.lastRopes = fill.ropes,
                                 !.out = Some(fill.ropes)]
               ELSE onceStart([fill EXCEPT !.lastRopes = fill.ropes], fill.attempt + 1)
    /\ UNCHANGED <<irr, pathEd, app>>
    /\ UNCHANGED <<diffVars, tuneVars>>

\* the caller scores the level it got: computeDifficulty({MapX, MapY, Rope})
FillScore ==
    /\ fill.pc = "done"
    /\ fill.diag = Null
    /\ fill' = [fill EXCEPT !.diag = Some(computeDifficulty(
                   [MapX |-> fill.MapX, MapY |-> fill.MapY, Rope |-> The(fill.out)]))]
    /\ UNCHANGED <<irr, pathEd, app>>
    /\ UNCHANGED <<diffVars, tuneVars>>

\* the caller repeats a seeded call with the same arguments
CallAgain ==
    /\ fill.pc = "done"
    /\ fill.diag # Null
    /\ fill.callNo = 1
    /\ fill.config.seed # Null
    /\ fill' = fillCall(fill.MapX, fill.MapY, fill.maskIndices, fill.config, 2,
                        Some([ropes |-> The(fill.out), diag |-> The(fill.diag)]))
    /\ UNCHANGED <<irr, pathEd, app>>
    /\ UNCHANGED <<diffVars, tuneVars>>

NextFill == FillBegin \/ OnceLoop \/ GrowStep \/ FinishRope \/ OnceReturn \/ FillScore \/ CallAgain

\* finalConfig: DEFAULT_AUTO_FILL_CONFIG overridden by the fields given
FillConfig(minLen, maxLen, kMin, kMax, forbid, maxRopes, seed, post) ==
    [targetCoverage |-> "A", minLen |-> minLen, maxLen |-> maxLen,
     kMin |-> kMin, kMax |-> kMax,
     forbidUturn |-> forbid[1], forbidHeadTurn |-> forbid[2], forbid2x2Loop |-> forbid[3],
     maxRopes |-> maxRopes, seed |-> seed,
     minMovableRopes |-> post[1], maxHighBendRatio |-> post[2],
     highBendThreshold |-> post[3], maxAvgBend |-> post[4], minMainRopeLen |-> post[5]]

NoPost == <<Null, Null, Null, Null, Null>>

(***************************************************************************)
(* autoFillIrregular (modules/auto-fill/autoFill.ts).                      *)
(* turnChance and corridorBias are held in hundredths, so the base score   *)
(* 1.0 of a candidate is WEIGHT_ONE.                                       *)
(***************************************************************************)
WEIGHT_ONE == 100

getNeighbors(index, MapX, MapY) ==
    LET p == indexToXY(index, MapX)
    IN  (IF p.y + 1 < MapY THEN <<xyToIndex(p.x, p.y + 1, MapX)>> ELSE <<>>)
        \o (IF p.y - 1 >= 0 THEN <<xyToIndex(p.x, p.y - 1, MapX)>> ELSE <<>>)
        \o (IF p.x + 1 < MapX THEN <<xyToIndex(p.x + 1, p.y, MapX)>> ELSE <<>>)
        \o (IF p.x - 1 >= 0 THEN <<xyToIndex(p.x - 1, p.y, MapX)>> ELSE <<>>)

\* no2x2Loop, lines 433-460: the corner cells it collects
cornersOf(currentPos, nextPos, MapX, MapY) ==
    IF nextPos.y - currentPos.y = 0
    THEN LET minY == Min2(currentPos.y, nextPos.y)
         IN  (IF minY + 1 < MapY
              THEN <<xyToIndex(currentPos.x, minY + 1, MapX), xyToIndex(nextPos.x, minY + 1, MapX)>>
              ELSE <<>>)
             \o (IF minY - 1 >= 0
                 THEN <<xyToIndex(currentPos.x, minY - 1, MapX), xyToIndex(nextPos.x, minY - 1, MapX)>>
                 ELSE <<>>)
    ELSE IF nextPos.x - currentPos.x = 0
    THEN LET minX == Min2(currentPos.x, nextPos.x)
         IN  (IF minX + 1 < MapX
              THEN <<xyToIndex(minX + 1, currentPos.y, MapX), xyToIndex(minX + 1, nextPos.y, MapX)>>
              ELSE <<>>)
             \o (IF minX - 1 >= 0
                 THEN <<xyToIndex(minX - 1, currentPos.y, MapX), xyToIndex(minX - 1, nextPos.y, MapX)>>
                 ELSE <<>>)
    ELSE <<>>

Abs(n) == IF n < 0 THEN -n ELSE n

\* no2x2Loop(current, next, path, occupied, MapX, MapY): TRUE lets the step pass
no2x2Loop(current, nxt, path, occupied, MapX, MapY) ==
    LET currentPos == indexToXY(current, MapX)
        nextPos == indexToXY(nxt, MapX)
        corners == cornersOf(currentPos, nextPos, MapX, MapY)
        allOccupied == SeqRange(path) \cup occupied
        occupiedCorners == SelectSeq(corners, LAMBDA corner : corner \in allOccupied)
    IN  \/ Abs(nextPos.x - currentPos.x) + Abs(nextPos.y - currentPos.y) # 1
        \/ ~(Len(corners) = 4 /\ Len(occupiedCorners) = 4)

\* the D-stepped cell used by checkAtLeastOneMovable
aheadOfHead(rope, MapX) ==
    IF rope.D = 1 THEN rope.H + MapX
    ELSE IF rope.D = 2 THEN rope.H - MapX
    ELSE IF rope.D = 3 THEN rope.H + 1
    ELSE rope.H - 1

checkAtLeastOneMovable(ropes, MapX, MapY) ==
    LET occupiedAll == UNION {SeqRange(ropes[i].Index) : i \in 1..Len(ropes)}
    IN  \E i \in 1..Len(ropes) :
          /\ ~(Len(ropes[i].Index) < 2 \/ ropes[i].D < 1 \/ ropes[i].D > 4)
          /\ \/ aheadOfHead(ropes[i], MapX) < 0
             \/ aheadOfHead(ropes[i], MapX) > MapX * MapY - 1
             \/ aheadOfHead(ropes[i], MapX) \notin occupiedAll

calculateFinalDirection(path, MapX) ==
    IF Len(path) < 2 THEN 0
    ELSE calculateDirection(path[Len(path) - 1], path[Len(path)], MapX)

\* [...rope.Index].reverse()
reverse(s) == [i \in 1..Len(s) |-> s[Len(s) + 1 - i]]

reverseRope(rope, MapX) ==
    [calculateRopeFields(reverse(rope.Index), MapX, rope.ColorIdx)
        EXCEPT !.D = calculateFinalDirection(reverse(rope.Index), MapX)]

\* autoFillIrregular, lines 794-796: the piece made of a grown path
irregularRope(path, MapX) ==
    [calculateRopeFields(path, MapX, -1) EXCEPT !.D = calculateFinalDirection(path, MapX)]

\* lines 665-679: the start cell, from the i-th unused cell on; best is the
\* pair <<start, minNeighbors>> found so far (Null before any)
RECURSIVE pickStart(_, _, _, _, _, _, _, _)
pickStart(unusedCells, i, failedStarts, availableCells, occupied, MapX, MapY, best) ==
    IF i > Len(unusedCells) THEN best
    ELSE LET cell == unusedCells[i]
             availableNeighbors ==
                 SelectSeq(getNeighbors(cell, MapX, MapY),
                           LAMBDA n : n \in availableCells /\ n \notin occupied /\ n # cell)
             better == /\ cell \notin failedStarts
                       /\ (best = Null \/ Len(availableNeighbors) < The(best)[2])
         IN  pickStart(unusedCells, i + 1, failedStarts, availableCells, occupied, MapX, MapY,
                       IF better THEN Some(<<cell, Len(availableNeighbors)>>) ELSE best)

\* lines 706-718: the candidates among the neighbours of current
candidatesOf(current, path, availableCells, tempOccupied, MapX, MapY) ==
    SelectSeq(getNeighbors(current, MapX, MapY),
              LAMBDA neighbor :
                 /\ neighbor \in availableCells
                 /\ neighbor \notin tempOccupied
                 /\ ~(Len(path) > 0 /\ neighbor = path[Len(path)])
                 /\ no2x2Loop(current, neighbor, path, tempOccupied, MapX, MapY))

\* lines 728-746: the score of a candidate lying in direction dir
scoreOf(dir, currentDir, turns, Ktarget, c) ==
    IF currentDir # Null /\ Some(dir) # currentDir /\ turns >= Ktarget THEN 0
    ELSE WEIGHT_ONE
         + (IF currentDir # Null /\ Some(dir) = currentDir THEN c.corridorBias ELSE 0)
         + (IF currentDir # Null /\ Some(dir) # currentDir THEN c.turnChance ELSE 0)

\* lines 726-751: the candidates of positive score, with their scores
scoresOf(candidates, current, currentDir, turns, Ktarget, c, MapX) ==
    SelectSeq([i \in 1..Len(candidates) |->
                 [candidate |-> candidates[i],
                  score |-> scoreOf(calculateDirection(current, candidates[i], MapX),
                                    currentDir, turns, Ktarget, c)]],
              LAMBDA e : e.score > 0)

\* r * totalScore <= cum, for the draw r
drawAtMost(r, totalScore, cum) ==
    LET q == r[1] * totalScore + (r[2] * totalScore) \div Half
        rem == (r[2] * totalScore) % Half
    IN  q < cum * Half \/ (q = cum * Half /\ rem = 0)

\* lines 759-773: the position in scores the weighted draw r lands on
weightedPick(r, scores) ==
    LET totalScore == SumSeq([i \in 1..Len(scores) |-> scores[i].score])
        cum(i) == SumSeq([k \in 1..i |-> scores[k].score])
        hits == {i \in 1..Len(scores) : drawAtMost(r, totalScore, cum(i))}
    IN  IF hits = {} THEN 1 ELSE SetMin(hits)

\* tryFixMovability: maxAttempts = 10, and at most 5 pieces are reversed
FIX_MAX_ATTEMPTS == 10
FIX_MAX_REVERSED == 5
numToReverseOf(n) == Min2(ceilDiv(n, 2), FIX_MAX_REVERSED)

\* lines 583-585: newRopes with the chosen pieces reversed (positions 1-based)
reverseChosen(ropes, indicesToReverse, MapX) ==
    [i \in 1..Len(ropes) |->
        IF i \in indicesToReverse THEN reverseRope(ropes[i], MapX) ELSE ropes[i]]

(***************************************************************************)
(* autoFillIrregular as a state machine.  irr.pc is the position:          *)
(*   "call"   autoFillIrregular has been called                            *)
(*   "outer"  at the test of the outer while loop (line 658)               *)
(*   "grow"   at the test of the growth loop (line 701)                    *)
(*   "close"  after the growth loop (line 786)                             *)
(*   "merge"  after the outer loop (line 806)                              *)
(*   "sample" tryFixMovability, at the test of its sampling loop (578)     *)
(*   "done"   autoFillIrregular has returned irr.out                       *)
(* Every draw is Math.random().  irr.tick is the parity of the number of   *)
(* draws the sampling loop has made (not program state).                   *)
(***************************************************************************)
irrCall(shapeMask, existingRopes, MapX, MapY, c) ==
    [pc |-> "call", shapeMask |-> shapeMask, existingRopes |-> existingRopes,
     MapX |-> MapX, MapY |-> MapY, config |-> c,
     ropes |-> <<>>, errors |-> 0, warnings |-> 0,
     occupied |-> {}, unusedCells |-> <<>>, failedStarts |-> {},
     maxAttempts |-> 0, attempts |-> 0,
     start |-> Null, Ktarget |-> 0, path |-> <<>>, currentDir |-> Null, turns |-> 0,
     attempt |-> 0, indicesToReverse |-> {}, tick |-> 0,
     grown |-> <<>>, fixed |-> FALSE, out |-> Null]

\* lines 605-655
IrrBegin ==
    /\ irr.pc = "call"
    /\ LET occupied == IF irr.config.overwriteExisting THEN {}
                       ELSE UNION {SeqRange(irr.existingRopes[i].Index) :
                                     i \in 1..Len(irr.existingRopes)}
           unusedCells == SelectSeq(setOf(irr.shapeMask), LAMBDA cell : cell \notin occupied)
       IN  irr' = IF irr.MapX = 0 \/ irr.MapY = 0 \/ Len(irr.shapeMask) = 0
                  THEN [irr EXCEPT !.pc = "done", !.errors = 1, !.out = Some(<<>>)]
                  ELSE IF Len(unusedCells) = 0
                  THEN [irr EXCEPT !.pc = "done", !.warnings = 1, !.occupied = occupied,
                                   !.out = Some(<<>>)]
                  ELSE [irr EXCEPT !.pc = "outer", !.occupied = occupied,
                                   !.unusedCells = unusedCells,
                                   !.maxAttempts = Len(unusedCells) * 10]
    /\ UNCHANGED <<fill, pathEd, app>>
    /\ UNCHANGED <<diffVars, tuneVars>>

\* lines 688-699, once the start cell is known; k is the draw for Ktarget
IrrStartAt(start, k) ==
    irr' = [irr EXCEPT
              !.pc = "grow", !.attempts = @ + 1, !.start = Some(start),
              !.Ktarget = floorTimes(k, irr.config.Kmax - irr.config.Kmin + 1) + irr.config.Kmin,
              !.path = <<start>>, !.currentDir = Null, !.turns = 0]

\* lines 658-699, given the start cell the scan of lines 665-679 found
IrrOuterBody(best) ==
    IF Len(irr.unusedCells) > 0 /\ irr.attempts < irr.maxAttempts
    THEN IF best # Null
         THEN \E k \in Draws(Null) : IrrStartAt(The(best)[1], k.value)
         ELSE \E d \in Draws(Null) : \E k \in Draws(Null) :
                IrrStartAt(irr.unusedCells[floorTimes(d.value, Len(irr.unusedCells)) + 1],
                           k.value)
    ELSE irr' = [irr EXCEPT !.pc = "merge"]

IrrOuter ==
    /\ irr.pc = "outer"
    /\ IrrOuterBody(pickStart(irr.unusedCells, 1, irr.failedStarts,
                              SeqRange(irr.shapeMask), irr.occupied, irr.MapX, irr.MapY, Null))
    /\ UNCHANGED <<fill, pathEd, app>>
    /\ UNCHANGED <<diffVars, tuneVars>>

\* lines 720-783, given the scored candidates
IrrGrowBody(scores) ==
    IF Len(scores) = 0
    THEN irr' = [irr EXCEPT !.pc = "close"]
    ELSE \E d \in Draws(Null) :
           LET nxt == scores[weightedPick(d.value, scores)].candidate
               nextDir == calculateDirection(irr.path[Len(irr.path)], nxt, irr.MapX)
           IN  irr' = [irr EXCEPT
                         !.turns = IF irr.currentDir # Null /\ Some(nextDir) # irr.currentDir
                                   THEN @ + 1 ELSE @,
                         !.currentDir = Some(nextDir),
                         !.path = Append(@, nxt)]

\* one iteration of the growth loop, lines 701-784
IrrGrow ==
    /\ irr.pc = "grow"
    /\ IF Len(irr.path) < irr.config.maxLen
       THEN IrrGrowBody(scoresOf(
                candidatesOf(irr.path[Len(irr.path)], irr.path, SeqRange(irr.shapeMask),
                             irr.occupied \cup SeqRange(irr.path), irr.MapX, irr.MapY),
                irr.path[Len(irr.path)], irr.currentDir, irr.turns, irr.Ktarget,
                irr.config, irr.MapX))
       ELSE irr' = [irr EXCEPT !.pc = "close"]
    /\ UNCHANGED <<fill, pathEd, app>>
    /\ UNCHANGED <<diffVars, tuneVars>>

\* lines 786-803
IrrClose ==
    /\ irr.pc = "close"
    /\ irr' = IF Len(irr.path) < irr.config.minLen
              THEN [irr EXCEPT !.pc = "outer", !.failedStarts = @ \cup irr.start]
              ELSE [irr EXCEPT !.pc = "outer",
                               !.ropes = Append(@, irregularRope(irr.path, irr.MapX)),
                               !.grown = Append(@, irregularRope(irr.path, irr.MapX)),
                               !.occupied = @ \cup SeqRange(irr.path),
                               !.unusedCells = deleteAll(@, irr.path)]
    /\ UNCHANGED <<fill, pathEd, app>>
    /\ UNCHANGED <<diffVars, tuneVars>>

\* lines 806-818 and tryFixMovability, lines 568-577
IrrMerge ==
    /\ irr.pc = "merge"
    /\ LET ropes == IF irr.config.overwriteExisting THEN irr.ropes
                    ELSE irr.existingRopes \o irr.ropes
       IN  irr' = IF checkAtLeastOneMovable(ropes, irr.MapX, irr.MapY)
                  THEN [irr EXCEPT !.pc = "done", !.ropes = ropes, !.fixed = TRUE,
                                   !.warnings = @ + 1, !.out = Some(ropes)]
                  ELSE [irr EXCEPT !.pc = "sample", !.ropes = ropes, !.attempt = 0,
                                   !.indicesToReverse = {}]
    /\ UNCHANGED <<fill, pathEd, app>>
    /\ UNCHANGED <<diffVars, tuneVars>>

\* tryFixMovability, lines 573-592: the attempt loop is over, or the sampling
\* loop is over and the chosen pieces are reversed
IrrTry ==
    /\ irr.pc = "sample"
    /\ \/ irr.attempt >= FIX_MAX_ATTEMPTS
       \/ Cardinality(irr.indicesToReverse) >= numToReverseOf(Len(irr.ropes))
    /\ LET newRopes == reverseChosen(irr.ropes, irr.indicesToReverse, irr.MapX)
       IN  irr' = IF irr.attempt >= FIX_MAX_ATTEMPTS
                  THEN [irr EXCEPT !.pc = "done", !.fixed = FALSE, !.warnings = @ + 2,
                                   !.out = Some(irr.ropes)]
                  ELSE IF checkAtLeastOneMovable(newRopes, irr.MapX, irr.MapY)
                  THEN [irr EXCEPT !.pc = "done", !.fixed = TRUE, !.warnings = @ + 1,
                                   !.ropes = newRopes, !.out = Some(newRopes)]
                  ELSE [irr EXCEPT !.attempt = @ + 1, !.indicesToReverse = {}]
    /\ UNCHANGED <<fill, pathEd, app>>
    /\ UNCHANGED <<diffVars, tuneVars>>

\* tryFixMovability, lines 578-580: one iteration of the sampling loop
IrrSample ==
    /\ irr.pc = "sample"
    /\ irr.attempt < FIX_MAX_ATTEMPTS
    /\ Cardinality(irr.indicesToReverse) < numToReverseOf(Len(irr.ropes))
    /\ \E d \in Draws(Null) :
         irr' = [irr EXCEPT
                   !.indicesToReverse = @ \cup {floorTimes(d.value, Len(irr.ropes)) + 1},
                   !.tick = 1 - @]
    /\ UNCHANGED <<fill, pathEd, app>>
    /\ UNCHANGED <<diffVars, tuneVars>>

NextIrr == IrrBegin \/ IrrOuter \/ IrrGrow \/ IrrClose \/ IrrMerge \/ IrrTry \/ IrrSample

\* the AutoFillConfig of autoFillIrregular
IrrConfig(minLen, maxLen, Kmin, Kmax, overwriteExisting) ==
    [minLen |-> minLen, maxLen |-> maxLen, Kmin |-> Kmin, Kmax |-> Kmax,
     turnChance |-> 35, corridorBias |-> 60, overwriteExisting |-> overwriteExisting]

(***************************************************************************)
(* The generator calls the model explores.                                 *)
(***************************************************************************)
AllRules == <<TRUE, TRUE, TRUE>>
No2x2Rule == <<TRUE, TRUE, FALSE>>
\* a 2 x 2 corner of the 3 x 2 grid, in the order the editor selected it
CornerMask == <<4, 1, 0, 3>>
FullMask == <<0, 1, 2, 3, 4, 5>>

FillCalls ==
    { fillCall(3, 2, <<>>, FillConfig(2, 3, 0, 1, AllRules, Some(2), Null, NoPost), 1, Null),
      fillCall(3, 2, <<>>, FillConfig(2, 5, 0, 0, AllRules, Null, Null, NoPost), 1, Null),
      fillCall(3, 2, <<>>, FillConfig(2, 5, 0, 0, No2x2Rule, Null, Null, NoPost), 1, Null),
      fillCall(3, 2, CornerMask, FillConfig(2, 3, 1, 2, AllRules, Some(2), Null, NoPost), 1, Null),
      fillCall(3, 2, <<>>, FillConfig(3, 4, 0, 1, AllRules, Some(2), Null, NoPost), 1, Null),
      fillCall(3, 2, <<>>, FillConfig(2, 3, 0, 1, AllRules, Some(3), Some(1), NoPost), 1, Null),
      fillCall(3, 2, <<>>, FillConfig(2, 4, 0, 1, AllRules, Some(3), Some(2), NoPost), 1, Null),
      fillCall(3, 2, CornerMask, FillConfig(2, 3, 0, 1, AllRules, Some(2), Some(7),
                                            <<Some(2), Null, Null, Null, Null>>), 1, Null),
      fillCall(2, 1, <<>>, FillConfig(2, 3, 0, 1, AllRules, Some(2), Null,
                                      <<Null, Null, Null, Null, Some(3)>>), 1, Null),
      fillCall(0, 2, <<>>, FillConfig(2, 3, 0, 1, AllRules, Some(2), Null, NoPost), 1, Null) }

IrrCalls ==
    { irrCall(FullMask, <<>>, 3, 2, IrrConfig(2, 4, 0, 2, FALSE)),
      irrCall(FullMask, <<irregularRope(<<0, 3>>, 3)>>, 3, 2, IrrConfig(2, 3, 0, 1, FALSE)),
      irrCall(FullMask, <<irregularRope(<<0, 3>>, 3)>>, 3, 2, IrrConfig(2, 3, 0, 1, TRUE)),
      irrCall(CornerMask, <<>>, 3, 2, IrrConfig(2, 3, 1, 2, FALSE)),
      irrCall(<<0, 1>>, <<>>, 3, 2, IrrConfig(2, 3, 1, 2, FALSE)),
      irrCall(<<0, 1, 2, 3>>, <<>>, 2, 2, IrrConfig(3, 4, 0, 2, FALSE)),
      irrCall(<<0, 3>>, <<irregularRope(<<0, 3>>, 3)>>, 3, 2, IrrConfig(2, 3, 0, 1, FALSE)),
      irrCall(<<>>, <<>>, 3, 2, IrrConfig(2, 3, 0, 1, FALSE)) }

\* neither the scorer driver nor autoTuneGenerate is running
ScorerIdle == level = LevelBase /\ diag = Null /\ TuneIdle

InitFill ==
    /\ fill \in FillCalls
    /\ irr = [pc |-> "idle"] /\ pathEd = [pc |-> "idle"] /\ app = [pc |-> "idle"]
    /\ ScorerIdle

InitIrr ==
    /\ irr \in IrrCalls
    /\ fill = [pc |-> "idle"] /\ pathEd = [pc |-> "idle"] /\ app = [pc |-> "idle"]
    /\ ScorerIdle

InitGen == InitFill \/ InitIrr
NextGen == NextFill \/ NextIrr
SpecGen == InitGen /\ [][NextGen]_vars

\* autoFillIrregular alone.  JavaScript runs a call to completion: while
\* tryFixMovability is in its loops (irr.pc = "sample") its next step is taken.
LiveIrr == InitIrr /\ [][NextIrr]_vars /\ WF_vars(IrrSample \/ IrrTry)

(***************************************************************************)
(* Properties of the generators (checked under SpecGen).                   *)
(***************************************************************************)
\* the pieces autoFillRopes returned
FillOut == IF fill.pc = "done" THEN The(fill.out) ELSE <<>>
\* the pieces autoFillIrregular returned, and those of them it grew itself
IrrOut == IF irr.pc = "done" THEN The(irr.out) ELSE <<>>
IrrNew ==
    IF irr.pc # "done" THEN <<>>
    ELSE IF irr.config.overwriteExisting THEN The(irr.out)
    ELSE SubSeq(The(irr.out), Len(irr.existingRopes) + 1, Len(The(irr.out)))

\* every produced piece, with the grid and the bounds it was generated under
Produced ==
    { [rope |-> FillOut[i], by |-> "autoFillRopes", MapX |-> fill.MapX, MapY |-> fill.MapY,
       minLen |-> fill.config.minLen, maxLen |-> fill.config.maxLen,
       kMin |-> fill.config.kMin, kMax |-> fill.config.kMax,
       rule2x2 |-> fill.config.forbid2x2Loop] : i \in 1..Len(FillOut) }
    \cup
    { [rope |-> IrrNew[i], by |-> "autoFillIrregular", MapX |-> irr.MapX, MapY |-> irr.MapY,
       minLen |-> irr.config.minLen, maxLen |-> irr.config.maxLen,
       kMin |-> irr.config.Kmin, kMax |-> irr.config.Kmax,
       rule2x2 |-> TRUE] : i \in 1..Len(IrrNew) }

\* cells a and b are 4-neighbours on a grid MapX wide
FourNeighbours(a, b, MapX) ==
    LET ax == a % MapX
        ay == a \div MapX
        bx == b % MapX
        by == b \div MapX
    IN  \/ (ax = bx /\ (ay = by + 1 \/ by = ay + 1))
        \/ (ay = by /\ (ax = bx + 1 \/ bx = ax + 1))

Connected(Index, MapX) ==
    \A i \in 1..(Len(Index) - 1) : FourNeighbours(Index[i], Index[i + 1], MapX)

\* C11: in every piece a generator returns, every two consecutive cells of
\* Index are 4-neighbours on the grid (one step in x or in y, never across
\* the end of a row).
C11_ConsecutiveCellsAdjacent ==
    \A p \in Produced : Connected(p.rope.Index, p.MapX)

\* autoFillRopes has returned a piece that runs along a row into the last
\* column and goes on from there
C11_Witness ==
    \E p \in Produced :
        /\ p.by = "autoFillRopes"
        /\ \E i \in 2..(Len(p.rope.Index) - 1) :
              /\ p.rope.Index[i] % p.MapX = p.MapX - 1
              /\ p.rope.Index[i - 1] = p.rope.Index[i] - 1

\* the cells of a list of pieces, piece after piece
RECURSIVE CellsOf(_)
CellsOf(ropes) == IF ropes = <<>> THEN <<>> ELSE Head(ropes).Index \o CellsOf(Tail(ropes))

NoRepeat(s) == \A i, j \in 1..Len(s) : i # j => s[i] # s[j]

\* C12: within one generation pass no cell occurs twice inside a produced
\* piece, no cell belongs to two produced pieces, and (autoFillIrregular
\* without overwrite) none belongs to an existing piece.
C12_PiecesDisjoint ==
    /\ NoRepeat(CellsOf(FillOut))
    /\ NoRepeat(CellsOf(IrrNew))
    /\ (irr.pc = "done" /\ ~irr.config.overwriteExisting) =>
          SeqRange(CellsOf(IrrNew)) \cap SeqRange(CellsOf(irr.existingRopes)) = {}

\* autoFillRopes has returned two pieces, or autoFillIrregular has grown a
\* piece next to an existing one
C12_Witness ==
    \/ Len(FillOut) >= 2
    \/ (Len(IrrNew) >= 1 /\ ~irr.config.overwriteExisting /\ Len(irr.existingRopes) >= 1)

\* C13: every produced piece has minLen <= length <= maxLen and length >= 2;
\* a path that ended shorter than minLen is not in the output.
C13_LengthWithinBounds ==
    \A p \in Produced :
        /\ Len(p.rope.Index) >= p.minLen
        /\ Len(p.rope.Index) <= p.maxLen
        /\ Len(p.rope.Index) >= 2

\* a call with minLen 3 has returned one piece of 4 cells: the other 2 cells
\* of the grid hold only paths shorter than minLen, which were discarded
C13_Witness ==
    /\ Len(FillOut) = 1 /\ fill.config.minLen = 3
    /\ Len(FillOut[1].Index) = 4
    /\ fill.totalAttempts > 1

\* C14 (as stated): every produced piece has kMin <= BendCount <= kMax for
\* the config it was generated with.
C14_BendsWithinConfig ==
    \A p \in Produced : p.kMin <= p.rope.BendCount /\ p.rope.BendCount <= p.kMax

\* the direction of the step from a to b (0 when they are not 4-neighbours)
StepDir(a, b, MapX) ==
    IF ~FourNeighbours(a, b, MapX) THEN 0
    ELSE IF b = a + MapX THEN 1
    ELSE IF b = a - MapX THEN 2
    ELSE IF b = a + 1 THEN 3
    ELSE 4
OppositeOf(d) == IF d = 1 THEN 2 ELSE IF d = 2 THEN 1 ELSE IF d = 3 THEN 4 ELSE IF d = 4 THEN 3 ELSE 0

DerivedH(Index) == IF Len(Index) = 0 THEN 0 ELSE Index[1]
DerivedD(Index, MapX) ==
    IF Len(Index) < 2 THEN 0 ELSE OppositeOf(StepDir(Index[1], Index[2], MapX))
DerivedBends(Index, MapX) ==
    Cardinality({ i \in 3..Len(Index) :
                    StepDir(Index[i - 1], Index[i], MapX) # StepDir(Index[i - 2], Index[i - 1], MapX) })

\* C15 (as stated): every piece in a generator's output, reversed by the
\* repair pass or not, carries the deriver's values for its Index:
\* H = Index[0], D = opposite(direction(Index[0], Index[1])), BendCount = the
\* number of direction changes.
C15_FieldsDerived ==
    \A p \in Produced :
        /\ p.rope.H = DerivedH(p.rope.Index)
        /\ p.rope.D = DerivedD(p.rope.Index, p.MapX)
        /\ p.rope.BendCount = DerivedBends(p.rope.Index, p.MapX)

\* C16: a second call of autoFillRopes with the same MapX, MapY, maskIndices
\* and the same non-null seed returns the piece list the first call returned,
\* and computeDifficulty gives the two levels the same diagnostics.
C16_SeededCallsAgree ==
    (fill.pc = "done" /\ fill.callNo = 2 /\ fill.diag # Null) =>
        /\ The(fill.out) = The(fill.first).ropes
        /\ The(fill.diag) = The(fill.first).diag

\* a seeded call has been repeated and has returned two pieces or more again
C16_Witness ==
    /\ fill.pc = "done" /\ fill.callNo = 2 /\ fill.diag # Null
    /\ fill.config.seed # Null
    /\ Len(The(fill.out)) >= 2

\* the four cells Index[i..i+3] are the four cells of one 2x2 block
FillsBlock(Index, MapX, i) ==
    \E c \in SeqRange(Index) :
        /\ c % MapX < MapX - 1
        /\ {Index[i], Index[i + 1], Index[i + 2], Index[i + 3]} = {c, c + 1, c + MapX, c + MapX + 1}

\* C17 (as stated): with the 2x2-loop rule in force, no produced piece has
\* four consecutive cells that fill one 2x2 block of the grid.
C17_NoBlockFilled ==
    \A p \in Produced :
        p.rule2x2 => \A i \in 1..(Len(p.rope.Index) - 3) : ~FillsBlock(p.rope.Index, p.MapX, i)

\* C18 (as stated, for the movability repair pass of autoFillIrregular): once
\* tryFixMovability has started choosing pieces to reverse, the call returns,
\* whatever values the random source yields.
C18_RepairPassReturns == (irr.pc = "sample") ~> (irr.pc = "done")

(***************************************************************************)
(* Path editing: appendPathPoint and undoPathPoint applied, call after     *)
(* call, each to the path the call before it returned.                     *)
(***************************************************************************)
\* the grids of the path editor: 1..GridMax+1 columns, GridMax rows
PathRows == GridMax
PathCells(MapX) == 0..(MapX * PathRows - 1)

\* pathEd.path is the path held; op, newIndex, success and before describe
\* the last call: which function, its argument, its success flag (TRUE for
\* undoPathPoint, which has none) and the path it was given
pathStart(MapX) ==
    [pc |-> "edit", MapX |-> MapX, path |-> <<>>, op |-> "none", newIndex |-> -1,
     success |-> TRUE, before |-> <<>>]

AppendPoint(newIndex) ==
    /\ pathEd.pc = "edit"
    /\ LET r == appendPathPoint(pathEd.path, newIndex, pathEd.MapX)
       IN  pathEd' = [pathEd EXCEPT !.path = r.path, !.op = "append", !.newIndex = newIndex,
                                    !.success = r.success, !.before = pathEd.path]
    /\ UNCHANGED <<fill, irr, app>>
    /\ UNCHANGED <<diffVars, tuneVars>>

UndoPoint ==
    /\ pathEd.pc = "edit"
    /\ pathEd' = [pathEd EXCEPT !.path = undoPathPoint(pathEd.path), !.op = "undo",
                                !.newIndex = -1, !.success = TRUE, !.before = pathEd.path]
    /\ UNCHANGED <<fill, irr, app>>
    /\ UNCHANGED <<diffVars, tuneVars>>

InitPath ==
    /\ pathEd \in { pathStart(MapX) : MapX \in 1..(GridMax + 1) }
    /\ fill = [pc |-> "idle"] /\ irr = [pc |-> "idle"] /\ app = [pc |-> "idle"]
    /\ ScorerIdle
NextPath == (\E newIndex \in PathCells(pathEd.MapX) : AppendPoint(newIndex)) \/ UndoPoint
SpecPath == InitPath /\ [][NextPath]_vars

\* the last call was an append that breaks a rule: newIndex is already in the
\* path, or it is not a 4-neighbour of the last cell of a non-empty path
BreaksRule ==
    /\ pathEd.op = "append"
    /\ \/ pathEd.newIndex \in SeqRange(pathEd.before)
       \/ /\ pathEd.before # <<>>
          /\ ~FourNeighbours(pathEd.before[Len(pathEd.before)], pathEd.newIndex, pathEd.MapX)

DEFAULT_MAP == 10
appStart ==
    [pc |-> "app", MapX |-> DEFAULT_MAP, MapY |-> DEFAULT_MAP, Rope |-> <<>>,
     currentRopeIndex |-> -1, isRopeEditing |-> FALSE, currentEditingPath |-> <<>>,
     selectedRopeIndex |-> Null, isMaskEditing |-> FALSE]

\* ropes.filter((_, i) => i !== index)
withoutIndex(ropes, index) ==
    [j \in 1..(Len(ropes) - (IF index >= 0 /\ index < Len(ropes) THEN 1 ELSE 0)) |->
        IF j <= index THEN ropes[j] ELSE ropes[j + 1]]

\* rope-manager deleteRope
deleteRope(ropes, ropeIndex) ==
    IF ropeIndex < 0 \/ ropeIndex >= Len(ropes) THEN ropes ELSE withoutIndex(ropes, ropeIndex)

\* rope-manager hitTestRope: the pieces holding the cell, the shortest first,
\* the lower index first among equals; Null when no piece holds it
hitTestRope(cellIndex, ropes) ==
    LET hitRopes == { i \in 0..(Len(ropes) - 1) : includes(ropes[i + 1].Index, cellIndex) }
        before(a, b) ==
            \/ Len(ropes[a + 1].Index) < Len(ropes[b + 1].Index)
            \/ (Len(ropes[a + 1].Index) = Len(ropes[b + 1].Index) /\ a <= b)
    IN  IF hitRopes = {} THEN Null
        ELSE Some(CHOOSE a \in hitRopes : \A b \in hitRopes : before(a, b))

handleRopeAdd ==
    /\ app.pc = "app"
    /\ Len(app.Rope) < MaxRopes
    /\ app' = IF app.MapX = 0 \/ app.MapY = 0 THEN app
              ELSE [app EXCEPT
                      !.Rope = Append(@, [D |-> 0, H |-> 0, Index |-> <<>>,
                                          BendCount |-> 0, ColorIdx |-> -1]),
                      !.currentRopeIndex = Len(app.Rope)]
    /\ UNCHANGED <<fill, irr, pathEd>>
    /\ UNCHANGED <<diffVars, tuneVars>>

\* the mask editing switch of the top bar (lines 138-173)
handleToggleMaskEditing ==
    /\ app.pc = "app"
    /\ app' = IF app.MapX = 0 \/ app.MapY = 0 THEN app
              ELSE IF app.isMaskEditing THEN [app EXCEPT !.isMaskEditing = FALSE]
              ELSE IF app.isRopeEditing
              THEN [app EXCEPT
                      !.Rope[app.currentRopeIndex + 1] =
                          calculateRopeFields(app.currentEditingPath, app.MapX, @.ColorIdx),
                      !.currentEditingPath = <<>>, !.isMaskEditing = TRUE,
                      !.selectedRopeIndex = Null, !.isRopeEditing = FALSE]
              ELSE [app EXCEPT !.isMaskEditing = TRUE, !.selectedRopeIndex = Null,
                               !.isRopeEditing = FALSE]
    /\ UNCHANGED <<fill, irr, pathEd>>
    /\ UNCHANGED <<diffVars, tuneVars>>

\* a click on an entry of the Rope list of the editor panel
handleRopeSelect(index) ==
    /\ app.pc = "app"
    /\ index < Len(app.Rope)
    /\ app' = [app EXCEPT !.currentRopeIndex = index, !.isRopeEditing = FALSE,
                          !.currentEditingPath = <<>>]
    /\ UNCHANGED <<fill, irr, pathEd>>
    /\ UNCHANGED <<diffVars, tuneVars>>

\* the button is rendered when currentRopeIndex >= 0
handleEditModeToggle ==
    /\ app.pc = "app"
    /\ app.currentRopeIndex >= 0 /\ app.currentRopeIndex < Len(app.Rope)
    /\ app' = IF app.MapX = 0 \/ app.MapY = 0 THEN app
              ELSE IF app.isRopeEditing
              THEN [app EXCEPT
                      !.Rope[app.currentRopeIndex + 1] =
                          calculateRopeFields(app.currentEditingPath, app.MapX, @.ColorIdx),
                      !.isRopeEditing = FALSE, !.currentEditingPath = <<>>]
              ELSE [app EXCEPT
                      !.currentEditingPath = app.Rope[app.currentRopeIndex + 1].Index,
                      !.isRopeEditing = TRUE]
    /\ UNCHANGED <<fill, irr, pathEd>>
    /\ UNCHANGED <<diffVars, tuneVars>>

\* GridCanvas calls onCellClick for a click in Rope edit mode; in mask edit
\* mode the mask layer takes the click
handleCellClick(index) ==
    /\ app.pc = "app"
    /\ app.isRopeEditing /\ ~app.isMaskEditing
    /\ app' = IF app.MapX = 0 \/ app.MapY = 0 \/ app.currentRopeIndex < 0 THEN app
              ELSE IF /\ Len(app.currentEditingPath) > 0
                      /\ app.currentEditingPath[Len(app.currentEditingPath)] = index
              THEN [app EXCEPT !.currentEditingPath = undoPathPoint(@)]
              ELSE IF appendPathPoint(app.currentEditingPath, index, app.MapX).success
              THEN [app EXCEPT !.currentEditingPath = appendPathPoint(@, index, app.MapX).path]
              ELSE app
    /\ UNCHANGED <<fill, irr, pathEd>>
    /\ UNCHANGED <<diffVars, tuneVars>>

\* the editor panel renders the delete button of the entry currentRopeIndex
handleRopeDelete(index) ==
    /\ app.pc = "app"
    /\ index = app.currentRopeIndex /\ index < Len(app.Rope)
    /\ app' = IF app.currentRopeIndex = index
              THEN [app EXCEPT !.Rope = withoutIndex(@, index), !.currentRopeIndex = -1,
                               !.isRopeEditing = FALSE, !.currentEditingPath = <<>>]
              ELSE IF app.currentRopeIndex > index
              THEN [app EXCEPT !.Rope = withoutIndex(@, index), !.currentRopeIndex = @ - 1]
              ELSE [app EXCEPT !.Rope = withoutIndex(@, index)]
    /\ UNCHANGED <<fill, irr, pathEd>>
    /\ UNCHANGED <<diffVars, tuneVars>>

\* GridCanvas calls onRopeHit for a click outside Rope edit mode on a cell
\* that hitTestRope finds in a piece
handleRopeHit(ropeIndex) ==
    /\ app.pc = "app"
    /\ ~app.isRopeEditing /\ ~app.isMaskEditing
    /\ app' = [app EXCEPT !.selectedRopeIndex = IF @ = Some(ropeIndex) THEN Null
                                                ELSE Some(ropeIndex)]
    /\ UNCHANGED <<fill, irr, pathEd>>
    /\ UNCHANGED <<diffVars, tuneVars>>

\* the manager panel renders its delete button for a valid selectedRopeIndex
handleRopeManagerDelete(ropeIndex) ==
    /\ app.pc = "app"
    /\ app.selectedRopeIndex = Some(ropeIndex) /\ ropeIndex < Len(app.Rope)
    /\ LET newRopes == deleteRope(app.Rope, ropeIndex)
           selected ==
               IF app.selectedRopeIndex = Some(ropeIndex)
               THEN IF Len(newRopes) = 0 THEN Null
                    ELSE IF ropeIndex < Len(newRopes) THEN Some(ropeIndex)
                    ELSE Some(Len(newRopes) - 1)
               ELSE IF app.selectedRopeIndex # Null /\ The(app.selectedRopeIndex) > ropeIndex
               THEN Some(The(app.selectedRopeIndex) - 1)
               ELSE app.selectedRopeIndex
       IN  app' = IF app.isRopeEditing /\ app.currentRopeIndex = ropeIndex THEN app
                  ELSE IF app.currentRopeIndex = ropeIndex
                  THEN [app EXCEPT !.Rope = newRopes, !.selectedRopeIndex = selected,
                                   !.currentRopeIndex = -1, !.isRopeEditing = FALSE,
                                   !.currentEditingPath = <<>>]
                  ELSE IF app.currentRopeIndex > ropeIndex
                  THEN [app EXCEPT !.Rope = newRopes, !.selectedRopeIndex = selected,
                                   !.currentRopeIndex = @ - 1]
                  ELSE [app EXCEPT !.Rope = newRopes, !.selectedRopeIndex = selected]
    /\ UNCHANGED <<fill, irr, pathEd>>
    /\ UNCHANGED <<diffVars, tuneVars>>

handleLevelDataLoad(loadedLevelData) ==
    /\ app.pc = "app"
    /\ app' = [app EXCEPT !.MapX = loadedLevelData.MapX, !.MapY = loadedLevelData.MapY,
                          !.Rope = loadedLevelData.Rope, !.selectedRopeIndex = Null,
                          !.currentRopeIndex = -1, !.isRopeEditing = FALSE,
                          !.currentEditingPath = <<>>, !.isMaskEditing = FALSE]
    /\ UNCHANGED <<fill, irr, pathEd>>
    /\ UNCHANGED <<diffVars, tuneVars>>

handleClearLevel ==
    /\ app.pc = "app"
    /\ app' = appStart
    /\ UNCHANGED <<fill, irr, pathEd>>
    /\ UNCHANGED <<diffVars, tuneVars>>

\* the cells the user clicks, and the level files the user loads
ClickCells == {0, 1}
LoadedLevels ==
    { [MapX |-> 2, MapY |-> 1,
       Rope |-> <<calculateRopeFields(<<0>>, 2, -1), calculateRopeFields(<<1>>, 2, -1)>>] }

InitEdit ==
    /\ app = appStart
    /\ fill = [pc |-> "idle"] /\ irr = [pc |-> "idle"] /\ pathEd = [pc |-> "idle"]
    /\ ScorerIdle
NextEdit ==
    \/ handleRopeAdd
    \/ \E index \in 0..(MaxRopes - 1) : handleRopeSelect(index)
    \/ handleEditModeToggle
    \/ \E index \in ClickCells : handleCellClick(index)
    \/ \E index \in 0..(MaxRopes - 1) : handleRopeDelete(index)
    \/ \E cell \in ClickCells : \E ropeIndex \in hitTestRope(cell, app.Rope) : handleRopeHit(ropeIndex)
    \/ \E ropeIndex \in 0..(MaxRopes - 1) : handleRopeManagerDelete(ropeIndex)
    \/ \E loadedLevelData \in LoadedLevels : handleLevelDataLoad(loadedLevelData)
    \/ handleClearLevel
    \/ handleToggleMaskEditing
SpecEdit == InitEdit /\ [][NextEdit]_vars

\* C20 (as stated): after any sequence of editor actions currentRopeIndex is
\* -1 or a valid index of levelData.Rope, and selectedRopeIndex is null or a
\* valid index of levelData.Rope.
C20_SelectionsValid ==
    app.pc = "app" =>
        /\ app.currentRopeIndex = -1
           \/ (app.currentRopeIndex >= 0 /\ app.currentRopeIndex < Len(app.Rope))
        /\ \A i \in app.selectedRopeIndex : i >= 0 /\ i < Len(app.Rope)

(***************************************************************************)
(* Further properties of autoTuneGenerate (checked under SpecTune).        *)
(***************************************************************************)
\* the last call of generateOnce returned pieces, and the level made of them
\* breaks a guard while the guards are on
LastAttemptBreaksGuard ==
    /\ GuardsEnabled
    /\ gen # Null /\ The(gen) # <<>>
    /\ checkHardGuards(withRopes(level, The(gen))) # <<>>

\* the score of the level made of the pieces of the last call
LastAttemptScore == computeDifficulty(withRopes(level, The(gen))).DifficultyScore

\* C21: with the guards on, an attempt whose level breaks a guard is not
\* returned as a success, and the config after it is the 'easier' adjustment
\* of the config the attempt ran with, wherever its score lies.
C21_GuardViolationLoosens ==
    LastAttemptBreaksGuard =>
        /\ ~Succeeded
        /\ cfg = adjustConfig(The(passedCfg), "easier")

\* an attempt broke a guard with a score inside the target range, and the
\* 'easier' config it led to differs from what 'harder' would have given
C21_Witness ==
    /\ LastAttemptBreaksGuard
    /\ TargetLow <= LastAttemptScore /\ LastAttemptScore <= TargetHigh
    /\ adjustConfig(The(passedCfg), "easier") # adjustConfig(The(passedCfg), "harder")

(***************************************************************************)
(* Further properties of the scorer.  The distances need levels in which   *)
(* pieces block one another in chains, so computeDifficulty is also run on *)
(* every level of up to MaxRopes + 2 pieces drawn from ChainRopes, on a    *)
(* 3 x 3 grid and on a grid without columns (SpecDist).                    *)
(***************************************************************************)
\* Pieces of a 3 x 3 grid: two that leave the board at once, pieces whose next
\* cell lies in another piece, two that block each other, and one whose next
\* cell is a cell of its own.
ChainRopes ==
    { Rp(4, <<0, 1>>, 0), Rp(4, <<0, 1, 2>>, 0),
      Rp(2, <<4, 7>>, 0), Rp(4, <<5, 8>>, 0),
      Rp(3, <<3, 6>>, 0), Rp(4, <<4, 7>>, 0), Rp(2, <<6, 3>>, 0) }

ChainLevels ==
    {[MapX |-> x, MapY |-> 3, Rope |-> s] :
        x \in {0, 3},
        s \in UNION {[1..n -> ChainRopes] : n \in 0..(MaxRopes + 2)}}

InitDist ==
    /\ level \in ChainLevels
    /\ diag = Null
    /\ TuneIdle
    /\ ExtIdle

NextDist == Score

SpecDist == InitDist /\ [][NextDist]_vars

\* the edge into A from the owner of A's next cell: <<B, A, len(B) - pos>>
BlockingEdge(lv, A, owner) ==
    <<owner.ropeId, A, Len(lv.Rope[owner.ropeId].Index) - owner.pos>>

\* The reverse blocking edges of a level as triples <<B, A, w>>: A is not
\* movable, its next cell is the cell of B at position pos, w = len(B) - pos.
BlockingEdges(lv) ==
    {BlockingEdge(lv, A, The(cellOwner(lv, nextCell(lv.Rope[A], lv.MapX)))) :
        A \in {X \in (1..Len(lv.Rope)) \ movable(lv) :
                 /\ ~Skipped(lv.Rope[X])
                 /\ inBounds(nextCell(lv.Rope[X], lv.MapX), lv)
                 /\ cellOwner(lv, nextCell(lv.Rope[X], lv.MapX)) # Null}}

\* The total weights of the paths of at most k edges of E that start at a
\* piece of mov and end at piece A.
RECURSIVE PathWeights(_, _, _, _)
PathWeights(E, mov, A, k) ==
    (IF A \in mov THEN {0} ELSE {})
    \cup (IF k = 0 THEN {}
          ELSE UNION {{w + e[3] : w \in PathWeights(E, mov, e[1], k - 1)} :
                        e \in {x \in E : x[2] = A}})

LeastOf(W) == IF W = {} THEN INF ELSE SetMin(W)

\* the minimum total weight over all paths from a movable piece to each piece,
\* INF when there is none (a shortest path visits no piece twice)
ShortestPathsIn(E, mov, n) == [A \in 1..n |-> LeastOf(PathWeights(E, mov, A, n))]

ShortestPaths(lv) == ShortestPathsIn(BlockingEdges(lv), movable(lv), Len(lv.Rope))

KeySetDistances(lv, sp) == {sp[KeySetOf(lv)[k]] : k \in 1..Len(KeySetOf(lv))} \ {INF}

\* the statement of C22 for a level, its diagnostics d and its distance array
DistanceLaw(lv, d, dist, sp) ==
    /\ dist = sp
    /\ KeySetDistances(lv, sp) # {} => d.KeyLockDepth = SetMin(KeySetDistances(lv, sp))

ChainAndIsland(E, mov, sp) ==
    /\ \E e \in E : sp[e[2]] # INF /\ e[1] \notin mov
    /\ \E A \in DOMAIN sp : sp[A] = INF

BreakLockRule(lv, d, sp) ==
    IF KeySetDistances(lv, sp) # {}
    THEN d.FirstBreakSteps = d.KeyLockDepth + 1
    ELSE d.FirstBreakSteps = 25 /\ d.KeyLockDepth = 25

\* C23: in the diagnostics of every level with at least one piece and a board
\* of at least one cell, FirstBreakSteps = KeyLockDepth + 1 whenever a KeySet
\* piece is reachable from a movable piece, and both are 25 when none is.
C23_BreakFollowsLock ==
    (Scored /\ Len(level.Rope) >= 1 /\ level.MapX * level.MapY > 0)
        => BreakLockRule(level, The(diag), ShortestPaths(level))

\* a scored level on a real board whose nearest KeySet piece is blocked
C23_Witness ==
    /\ Scored /\ Len(level.Rope) >= 1 /\ level.MapX * level.MapY > 0
    /\ KeySetDistances(level, ShortestPaths(level)) # {}
    /\ The(diag).KeyLockDepth >= 2

\* C23 as stated: the same for every level with at least one piece.
C23_AsStated ==
    (Scored /\ Len(level.Rope) >= 1)
        => BreakLockRule(level, The(diag), ShortestPaths(level))

\* one of the fatal rules applies to the diagnostics d
FatalRuleFires(d) ==
    d.InitialMovableCount = 0 \/ d.FirstBreakSteps > 10 \/ d.KeyLockDepth > 10

\* C24: for every level with at least one piece whose diagnostics report
\* InitialMovableCount = 0, or FirstBreakSteps or KeyLockDepth above 10,
\* checkHardGuards returns a non-empty list; an empty list means that none of
\* these rules fired.
C24_FatalRulesReported ==
    (Scored /\ Len(level.Rope) >= 1)
        => /\ FatalRuleFires(The(diag)) => checkHardGuards(level) # <<>>
           /\ checkHardGuards(level) = <<>> => ~FatalRuleFires(The(diag))

\* a scored level with two movable pieces whose KeySet is locked: only the
\* rules on FirstBreakSteps and KeyLockDepth fire
C24_Witness ==
    /\ Scored /\ Len(level.Rope) >= 1
    /\ The(diag).InitialMovableCount >= 2
    /\ The(diag).FirstBreakSteps > 10 /\ The(diag).KeyLockDepth > 10
    /\ SeqRange(checkHardGuards(level)) = {"G2", "G3"}

\* C24 as stated: the same for every level.
C24_AsStated ==
    Scored => (FatalRuleFires(The(diag)) => checkHardGuards(level) # <<>>)

(***************************************************************************)
(* Further properties of the generators (checked under SpecGen).           *)
(***************************************************************************)
\* no cell of Index after Index[1] is a 4-neighbour of the head Index[0]
HeadUntouched(Index, MapX) ==
    \A k \in 3..Len(Index) : ~FourNeighbours(Index[k], Index[1], MapX)

\* C25: with forbidHeadTurn enabled, in every piece autoFillRopes returns no
\* cell at position >= 2 of Index is 4-adjacent to Index[0].
C25_HeadNotRevisited ==
    (fill.pc = "done" /\ fill.config.forbidHeadTurn)
        => \A i \in 1..Len(FillOut) : HeadUntouched(FillOut[i].Index, fill.MapX)

\* a call without the 2 x 2 rule has returned a piece of at least four cells
\* that turns twice, so that it runs back along the row or column next to its
\* head
C25_Witness ==
    /\ fill.pc = "done" /\ fill.config.forbidHeadTurn /\ ~fill.config.forbid2x2Loop
    /\ \E i \in 1..Len(FillOut) :
          /\ Len(FillOut[i].Index) >= 4
          /\ FillOut[i].BendCount >= 2

\* C26 (as stated): within one pass of autoFillIrregular a cell marked as a
\* failed start is never chosen as a start cell again: while a path is grown,
\* its start cell is not among the failed starts.
C26_FailedStartNotReused ==
    irr.pc = "grow" => The(irr.start) \notin irr.failedStarts

(***************************************************************************)
(* The failure result of autoTuneGenerate (checked under SpecTune).        *)
(***************************************************************************)
\* the parts of the result r describe the level made of r.ropes
DescribesOneAttempt(base, r) ==
    /\ r.diagnostics = computeDifficulty(withRopes(base, r.ropes))
    /\ r.score = computeDifficulty(withRopes(base, r.ropes)).DifficultyScore
    /\ r.guardErrors # Null => The(r.guardErrors) = checkHardGuards(withRopes(base, r.ropes))

\* C27: in a failure result, diagnostics is computeDifficulty of the returned
\* ropes, score is its DifficultyScore and guardErrors, when present, is
\* checkHardGuards of that level.
C27_FailureDescribesOneAttempt ==
    Failed => DescribesOneAttempt(level, The(result))

\* a failure with guard errors whose last attempt generated nothing, after
\* attempts that generated pieces
C27_Witness ==
    /\ Failed
    /\ The(result).guardErrors # Null
    /\ The(result).ropes # <<>>
    /\ The(gen) = <<>>
    /\ calls >= 3

(***************************************************************************)
(* validateRopeMovability (modules/level-io/validators.ts) and the three   *)
(* places that decide whether a piece can move (checked under SpecDiff).   *)
(***************************************************************************)
\* lines 167-183: the cell in front of the head H in direction D
nextIndexOf(rope, MapX) ==
    CASE rope.D = 1 -> rope.H + MapX
      [] rope.D = 2 -> rope.H - MapX
      [] rope.D = 3 -> rope.H + 1
      [] OTHER -> rope.H - 1

\* lines 141-199: the pieces pushed to movableRopes (as positions in Rope)
movableRopes(lv) ==
    {i \in 1..Len(lv.Rope) :
        /\ Len(lv.Rope[i].Index) >= 2
        /\ lv.Rope[i].D >= 1 /\ lv.Rope[i].D <= 4
        /\ \/ nextIndexOf(lv.Rope[i], lv.MapX) < 0
           \/ nextIndexOf(lv.Rope[i], lv.MapX) > lv.MapX * lv.MapY - 1
           \/ nextIndexOf(lv.Rope[i], lv.MapX) \notin occSet(lv)}

HeadsFirst(lv) == \A i \in 1..Len(lv.Rope) : lv.Rope[i].Index # <<>> => lv.Rope[i].H = lv.Rope[i].Index[1]

\* C28 (as stated, for a board with cells): for every level whose pieces have
\* H = Index[0], the pieces validateRopeMovability and postValidate treat as
\* movable are the pieces computeDifficulty counts in InitialMovableCount.
C28_OneMovabilityRule ==
    (Scored /\ HeadsFirst(level) /\ level.MapX * level.MapY > 0 /\ Len(level.Rope) > 0)
        => /\ movableRopes(level) = movable(level)
           /\ Cardinality(movableRopes(level)) = The(diag).InitialMovableCount
           /\ movableCount(level.Rope, level.MapX, level.MapY) = The(diag).InitialMovableCount

(***************************************************************************)
(* Further properties of the editor (checked under SpecEdit).              *)
(***************************************************************************)
\* C29 (as stated): after any sequence of editor actions, Rope path editing
\* and mask editing are never active at the same time.
C29_OneEditModeAtATime ==
    app.pc = "app" => ~(app.isRopeEditing /\ app.isMaskEditing)

\* C30 (as stated): while a path edit is in progress, currentRopeIndex keeps
\* referring to the Rope on which the edit was started: across every step
\* that leaves the edit in progress, the Rope at currentRopeIndex is the same.
C30_EditKeepsItsRope ==
    [][(app.pc = "app" /\ app.isRopeEditing /\ app'.isRopeEditing)
         => /\ app'.currentRopeIndex >= 0 /\ app'.currentRopeIndex < Len(app'.Rope)
            /\ app'.Rope[app'.currentRopeIndex + 1] = app.Rope[app.currentRopeIndex + 1]]_vars

====
